---- MODULE Spec2Model ----
(***************************************************************************)
(* Sahabat Quran: the Quran data client (fetchWithRetry, quranService),    *)
(* the tool executor (geminiService.executeTool), the chat service         *)
(* (apiCallWithRetry, geminiService.chat), the chat proxy and the image    *)
(* proxy with their in-memory rate limiters, the ChatWindow turn state     *)
(* machine, input sanitising and validation, the conversation history      *)
(* store (supabaseService), the analytics service and the ShareModal.      *)
(*                                                                         *)
(* Each component has its own specification (SpecData, SpecGemini,         *)
(* SpecRate, SpecProxy, SpecChat, SpecSanitize, SpecHistory, SpecSave,     *)
(* SpecAnalytics, SpecShare); the variables of the other components stay   *)
(* at their initial values.  SpecProxy follows either proxy: the two are   *)
(* separate serverless functions with separate rateLimitMaps.  SpecHistory *)
(* follows creating, listing and merging conversations, SpecSave the       *)
(* saveMessage calls on one conversation.                                  *)
(***************************************************************************)
EXTENDS Integers, Sequences, FiniteSets, TLC

VARIABLES
  \* ---- Quran data client / tool executor ----
  dpc,          \* "idle" | "inflight" | "waiting" | "done"
  dcall,        \* the operation being run and its arguments
  stage,        \* which fetchWithRetry call of the operation (1 or 2)
  attempt,      \* fetchWithRetry: loop variable
  delay,        \* fetchWithRetry: current backoff delay
  lastError,    \* fetchWithRetry: lastError
  waits,        \* delays slept by the current fetchWithRetry call, in order
  fetches,      \* fetchFn invocations of the current fetchWithRetry call
  opFetches,    \* fetchFn invocations of the whole operation
  failed,       \* outcomes of the failed attempts of the current call
  fstatus,      \* "none" | "pending" | "returned" | "thrown"
  dcStatus,     \* data-client operation: "notcalled" | "pending" | "resolved" | "rejected"
  dresult,      \* what the caller's promise settled to
  nops,         \* operations started so far
  \* ---- geminiService.chat / apiCallWithRetry ----
  gpc,          \* "idle" | "calling" | "waiting" | "done"
  gmode,        \* "direct" | "proxy"
  gmodel,       \* "flash" | "stable"
  gretries,     \* apiCallWithRetry: retries parameter of the current frame
  gdelay,       \* apiCallWithRetry: delay parameter of the current frame
  gwaits,       \* delays slept by the current apiCallWithRetry chain
  gcalls,       \* fn() invocations of the current apiCallWithRetry chain
  gfailed,      \* outcomes of the failed fn() calls of the current chain
  gthrown,      \* text of the error apiCallWithRetry threw ("-" if none)
  gresult,      \* what chat's promise settled to
  nchats,       \* chat calls started so far
  \* ---- chat proxy ----
  srvNow,       \* Date.now() of the proxy process
  rateLimitMap, \* ip -> record or NoRecord
  req,          \* the last request: caller ip, method, origin, message
  resp,         \* the response to the last request
  cors,         \* its Access-Control-Allow-Origin header ("-" if not set)
  respError,    \* the error string of its JSON body ("" if none)
  providerCall, \* how the provider call of the last request ended ("-" if none)
  winStart,     \* observer: start of the caller's current fixed window
  winCount,     \* observer: requests of the caller in that window (saturating)
  probeStart,   \* observer: start of one arbitrarily chosen rolling interval
  probeCount,   \* observer: requests seen since probeStart (saturating)
  nticks,       \* clock advances so far
  \* ---- image proxy ----
  imgNow,          \* Date.now() of the image proxy process
  imgRateLimitMap, \* ip -> record or NoRecord
  imgReq,          \* the last request: caller ip, method, origin, key, theme
  imgResp,         \* the response to the last request
  imgTicks,        \* clock advances so far
  \* ---- ChatWindow ----
  now,          \* the browser's last Date.now() reading
  lastClearTimestamp,
  messages,
  isLoading,
  input,
  turns,        \* turn id -> state of that handleSubmit invocation
  nturns,       \* handleSubmit invocations that passed the guard
  \* ---- input sanitizing ----
  sanPc,        \* "typing" | "once" | "twice" | "validated"
  sanIn,        \* the string handed to sanitizeInput / validateSearchQuery
  sanOut,       \* sanitizeInput(sanIn)
  sanAgain,     \* sanitizeInput(sanOut)
  sanValid,     \* validateSearchQuery: "-" | "accepted" | "rejected"
  \* ---- chatHistoryService ----
  hSigned,      \* localStorage holds an auth session token
  anonId,       \* localStorage 'sahabat_quran_user_id' ("none" if absent)
  convs,        \* conversations table: id -> row (ids are 1..Len(convs))
  dbMessages,   \* messages table, in insertion order
  hclock,       \* the last timestamp handed out
  saves,        \* saveMessage call -> its position, arguments and timestamp
  merged,       \* how the last mergeAnonymousHistory ended, and the rows it moved
  listed,       \* what the last getConversations returned
  \* ---- analyticsService ----
  consent,      \* localStorage analytics consent: "none" | "true" | "false"
  dnt,          \* the browser's Do-Not-Track setting is on
  gaConfigured, \* a measurement id is configured
  gtagDefined,  \* window.gtag exists
  firstVisit,   \* localStorage holds a first-visit time
  sessionAge,   \* sessionStartTime: "none" | "young" | "old" (10 s or more ago)
  interactionCount, \* events sent in this session (saturating at 2)
  anaSent,      \* kinds of gtag calls the last service call made
  anaThrew,     \* the last service call ended in an exception
  anaCalls,     \* service calls so far
  \* ---- ShareModal ----
  shOpen,       \* props.isOpen
  shVerse,      \* props.verseData ("none" for null)
  imageUrl,     \* state: the image shown ("null", or the image of a verse)
  shLoading,    \* state: isLoading
  imageCache,   \* ref: cache key -> image ("none" if absent)
  gens,         \* generateImage call -> position and cache key
  ngens         \* generateImage calls started so far

dataVars == <<dpc, dcall, stage, attempt, delay, lastError, waits, fetches,
              opFetches, failed, fstatus, dcStatus, dresult, nops>>
gemVars  == <<gpc, gmode, gmodel, gretries, gdelay, gwaits, gcalls, gfailed,
              gthrown, gresult, nchats>>
rateVars == <<srvNow, rateLimitMap, req, resp, cors, respError, providerCall,
              winStart, winCount, probeStart, probeCount, nticks>>
imgVars  == <<imgNow, imgRateLimitMap, imgReq, imgResp, imgTicks>>
chatVars == <<now, lastClearTimestamp, messages, isLoading, input, turns,
              nturns>>
sanVars  == <<sanPc, sanIn, sanOut, sanAgain, sanValid>>
histVars == <<hSigned, anonId, convs, dbMessages, hclock, saves, merged, listed>>
anaVars  == <<consent, dnt, gaConfigured, gtagDefined, firstVisit, sessionAge,
              interactionCount, anaSent, anaThrew, anaCalls>>
shareVars == <<shOpen, shVerse, imageUrl, shLoading, imageCache, gens, ngens>>
vars == <<dataVars, gemVars, rateVars, imgVars, chatVars, sanVars, histVars,
          anaVars, shareVars>>

(***************************************************************************)
(* Bounds of the model.                                                    *)
(***************************************************************************)
MaxOps == 2
MaxChats == 2
MaxQueryLen == 2
MaxTicks == 2
MaxTurns == 2
MaxToolCalls == 2
MaxTime == 1
MaxInputLen == 4
MaxConvs == 11
MaxSaves == 2
MaxAnaCalls == 4
MaxGens == 3

(***************************************************************************)
(* Program constants.                                                      *)
(***************************************************************************)
MAX_RETRIES == 3
RETRY_DELAY == 2000
TOTAL_SURAHS == 114
API_RETRIES == 3
API_DELAY == 2000
RATE_LIMIT == 30
RATE_WINDOW == 60000
MAX_MESSAGE_LENGTH == 2000

(***************************************************************************)
(* Error messages.  A message is a string; the substring tests the code    *)
(* makes on messages (String.prototype.includes) are answered by the set   *)
(* of needles the message contains.                                        *)
(***************************************************************************)
Needles == {"fetch", "403", "Forbidden", "permission", "QUOTA_EXCEEDED",
            "quota", "exceeded your current quota", "429", "rate limit",
            "RATE_LIMIT", "tidak valid", "invalid", "API"}

NETWORK_ERROR  == "Tidak dapat terhubung ke server. Periksa koneksi internet Anda."
API_ERROR      == "Terjadi kesalahan saat mengambil data. Silakan coba lagi."
RATE_LIMIT_MSG == "Terlalu banyak permintaan. Silakan tunggu sebentar dan coba lagi."
QUOTA_EXCEEDED == "Quota API harian telah habis. Silakan coba lagi besok atau upgrade plan Anda."
INVALID_SURAH  == "Nomor surah tidak valid. Harus antara 1-114."
INVALID_AYAH   == "Nomor ayat tidak valid."
GEMINI_ERROR   == "Terjadi kesalahan pada AI. Silakan coba lagi."
UNKNOWN_ERROR  == "Terjadi kesalahan yang tidak diketahui."
FORBIDDEN_MSG  == "API key tidak valid atau tidak memiliki akses. Periksa API key Anda di .env.local"
QUERY_TOO_SHORT == "Query terlalu pendek. Minimal 2 karakter."
INVALID_PAGE   == "Nomor halaman tidak valid."

\* The needles each message of the model contains (case-sensitive).
Contains(text) ==
  CASE text = "Failed to fetch" -> {"fetch"}
    [] text = "fetch failed" -> {"fetch"}
    [] text = "HTTP 403: Forbidden" -> {"403", "Forbidden"}
    [] text = "HTTP 429: Too Many Requests" -> {"429"}
    [] text = "HTTP 429: quota exceeded" -> {"429", "quota"}
    [] text = QUOTA_EXCEEDED -> {"API"}
    [] text = INVALID_SURAH -> {"tidak valid"}
    [] text = INVALID_AYAH -> {"tidak valid"}
    [] text = INVALID_PAGE -> {"tidak valid"}
    [] text = FORBIDDEN_MSG -> {"tidak valid", "API"}
    [] text = "got status: 429 Too Many Requests" -> {"429"}
    [] text = "got status: 429 You exceeded your current quota" ->
         {"429", "quota", "exceeded your current quota"}
    [] text = "got status: 403 Forbidden" -> {"403", "Forbidden"}
    [] text = "QUOTA_EXCEEDED: Gemini API daily quota exceeded. Please try again tomorrow or upgrade your plan." ->
         {"QUOTA_EXCEEDED", "quota", "API"}
    [] text = "RATE_LIMIT: Too many requests. Please wait a moment and try again." ->
         {"RATE_LIMIT"}
    [] OTHER -> {}

includes(text, needle) == needle \in Contains(text)

(***************************************************************************)
(* Errors: cls is the JavaScript class of the thrown value, type the       *)
(* AppError type ("-" for other classes), status the status property.      *)
(***************************************************************************)
Err(cls, type, text, status) ==
  [cls |-> cls, type |-> type, text |-> text, status |-> status]
NoError == Err("none", "-", "-", 0)
AppError(text, type) == Err("AppError", type, text, 0)
JsError(text) == Err("Error", "-", text, 0)
TypeError(text) == Err("TypeError", "-", text, 0)

IsError(e) == e.cls \in {"Error", "TypeError"}   \* instanceof Error, not AppError

\* errorHandler.handleError
handleError(error) ==
  IF error.cls = "AppError" THEN error
  ELSE IF error.cls = "TypeError" /\ includes(error.text, "fetch")
    THEN AppError(NETWORK_ERROR, "NETWORK")
  ELSE IF IsError(error) /\ (\/ includes(error.text, "403")
                             \/ includes(error.text, "Forbidden")
                             \/ includes(error.text, "permission"))
    THEN AppError(FORBIDDEN_MSG, "FORBIDDEN")
  ELSE IF IsError(error) /\ (\/ includes(error.text, "QUOTA_EXCEEDED")
                             \/ includes(error.text, "quota")
                             \/ includes(error.text, "exceeded your current quota"))
    THEN AppError(QUOTA_EXCEEDED, "RATE_LIMIT")
  ELSE IF IsError(error) /\ (\/ includes(error.text, "429")
                             \/ includes(error.text, "rate limit")
                             \/ includes(error.text, "RATE_LIMIT"))
    THEN AppError(RATE_LIMIT_MSG, "RATE_LIMIT")
  ELSE IF IsError(error) /\ (\/ includes(error.text, "tidak valid")
                             \/ includes(error.text, "invalid"))
    THEN AppError(error.text, "VALIDATION")
  ELSE IF IsError(error) /\ includes(error.text, "API")
    THEN AppError(API_ERROR, "API")
  ELSE AppError(IF IsError(error) THEN error.text ELSE UNKNOWN_ERROR, "UNKNOWN")

\* A retry predicate that retries every error class while budget remains.
shouldRetry_AnyError(error, retryCount, maxRetries) == retryCount < maxRetries

\* errorHandler.shouldRetry
shouldRetry(error, retryCount, maxRetries) ==
  IF retryCount >= maxRetries THEN FALSE
  ELSE error.type = "NETWORK" \/ error.type = "RATE_LIMIT"

(***************************************************************************)
(* Argument values.  A JavaScript value handed in as a number argument is  *)
(* an integer, a non-integer number, a string, or undefined.               *)
(***************************************************************************)
IntV(n) == [k |-> "int", v |-> n]
FracV   == [k |-> "frac", v |-> 0]      \* e.g. 1.5
StrV    == [k |-> "str", v |-> 0]       \* e.g. "2"
UndefV  == [k |-> "undef", v |-> 0]

\* A range check that forgets the upper bound.
isValidSurahNumber_NoUpper(surah) == surah.k = "int" /\ surah.v >= 1

\* validation.isValidSurahNumber
isValidSurahNumber(surah) ==
  surah.k = "int" /\ surah.v >= 1 /\ surah.v <= TOTAL_SURAHS

\* validation.isValidAyahNumber
isValidAyahNumber(ayah) == ayah.k = "int" /\ ayah.v >= 1

\* validation.validatePageNumber: TRUE when it does not throw
isValidPageNumber(page) == page.k = "int" /\ page.v >= 1

(***************************************************************************)
(* Strings of the search query are sequences of characters.                *)
(***************************************************************************)
Chars == {" ", "a", "<"}
RECURSIVE StringsUpTo(_)
StringsUpTo(n) ==
  IF n = 0 THEN {<<>>}
  ELSE LET S == StringsUpTo(n - 1)
       IN  S \cup {Append(s, c) : s \in {t \in S : Len(t) = n - 1}, c \in Chars}

RECURSIVE trimStart(_)
trimStart(s) == IF s # <<>> /\ Head(s) = " " THEN trimStart(Tail(s)) ELSE s
RECURSIVE trimEnd(_)
trimEnd(s) ==
  IF s # <<>> /\ s[Len(s)] = " " THEN trimEnd(SubSeq(s, 1, Len(s) - 1)) ELSE s
trim(s) == trimEnd(trimStart(s))
removeAngles(s) == SelectSeq(s, LAMBDA c : c \notin {"<", ">"})
slice(s, n) == SubSeq(s, 1, IF Len(s) < n THEN Len(s) ELSE n)

\* validation.sanitizeInput
sanitizeInput(s) == slice(removeAngles(trim(s)), 500)

\* validation.validateSearchQuery: TRUE when it does not throw
searchQueryAccepted(q) == Len(sanitizeInput(q)) >= 2

(***************************************************************************)
(* Quran data client: quranService over fetchWithRetry, and the tool       *)
(* executor geminiService.executeTool on top of it.                        *)
(***************************************************************************)
SurahArgs == {IntV(-1), IntV(0), IntV(1), IntV(114), IntV(115), FracV, StrV, UndefV}
AyahArgs  == {IntV(0), IntV(1), UndefV}
PageArgs  == {IntV(0), IntV(1), StrV, UndefV}
StrQ(s)   == [k |-> "str", s |-> s]
UndefQ    == [k |-> "undef", s |-> <<>>]
QueryArgs == {StrQ(s) : s \in StringsUpTo(MaxQueryLen)} \cup {UndefQ}

SEARCH_VERSE     == "search_verse"
GET_AYAH_DETAILS == "get_ayah_details"
GET_SURAH_INFO   == "get_surah_info"
ToolNames  == {SEARCH_VERSE, GET_AYAH_DETAILS, GET_SURAH_INFO}
OtherNames == {"get_tafsir"}          \* a name no tool is registered under

Call(via, op, tool, hasArgs, surah, ayah, query, page) ==
  [via |-> via, op |-> op, tool |-> tool, hasArgs |-> hasArgs,
   surah |-> surah, ayah |-> ayah, query |-> query, page |-> page]
NoCall == Call("-", "none", "-", FALSE, UndefV, UndefV, UndefQ, UndefV)

\* executeTool's switch: the data-client operation a tool name dispatches to
ToolOp(name) ==
  CASE name = SEARCH_VERSE -> "searchVerses"
    [] name = GET_AYAH_DETAILS -> "getAyahDetails"
    [] name = GET_SURAH_INFO -> "getSurah"
    [] OTHER -> "none"

\* args.page || 1
PageOrDefault(page) ==
  IF page.k = "undef" \/ (page.k = "int" /\ page.v = 0) THEN IntV(1) ELSE page

DirectCalls ==
  {Call("direct", "getSurahs", "-", TRUE, UndefV, UndefV, UndefQ, UndefV)}
  \cup {Call("direct", "getSurah", "-", TRUE, s, UndefV, UndefQ, UndefV) :
          s \in SurahArgs}
  \cup {Call("direct", "getAyahDetails", "-", TRUE, s, a, UndefQ, UndefV) :
          s \in SurahArgs, a \in AyahArgs}
  \cup {Call("direct", "searchVerses", "-", TRUE, UndefV, UndefV, q, IntV(1)) :
          q \in QueryArgs}
  \cup {Call("direct", "searchVerses", "-", TRUE, UndefV, UndefV, StrQ(<<"a", "a">>), p) :
          p \in PageArgs \ {UndefV}}

\* executeTool(name, args): args is undefined, or an object whose fields may
\* be missing or ill-typed.
ToolCalls ==
  {Call("tool", ToolOp(n), n, FALSE, UndefV, UndefV, UndefQ, UndefV) :
     n \in ToolNames \cup OtherNames}
  \cup {Call("tool", "none", n, TRUE, s, UndefV, UndefQ, UndefV) :
          n \in OtherNames, s \in {IntV(1), UndefV}}
  \cup {Call("tool", "getSurah", GET_SURAH_INFO, TRUE, s, UndefV, UndefQ, UndefV) :
          s \in SurahArgs}
  \cup {Call("tool", "getAyahDetails", GET_AYAH_DETAILS, TRUE, s, a, UndefQ, UndefV) :
          s \in {IntV(1), IntV(115), UndefV}, a \in AyahArgs}
  \cup {Call("tool", "searchVerses", SEARCH_VERSE, TRUE, UndefV, UndefV, q, PageOrDefault(p)) :
          q \in {StrQ(<<"a", "a">>), StrQ(<<"a">>), UndefQ}, p \in PageArgs}

\* Results.  k names the shape of the value, u its text_uthmani field.
Val(k, u) == [k |-> k, u |-> u]
NoVal == Val("none", "-")
Resolved(v) == [st |-> "resolved", val |-> v, err |-> NoError]
Rejected(e) == [st |-> "rejected", val |-> NoVal, err |-> e]
Unsettled   == [st |-> "none", val |-> NoVal, err |-> NoError]

\* What one fetch attempt (the race of fetchFn() with the timeout) ends in.
OkOutcomes    == {"ok_full", "ok_empty", "ok_missing"}
ErrOutcomes   == {"typeerror_fetch", "typeerror_other", "timeout", "badjson",
                  "http403", "http404", "http429", "http429_quota", "http500"}
FetchOutcomes == OkOutcomes \cup ErrOutcomes

\* The value thrown inside fetchWithRetry's try block for a failed attempt
RawError(o) ==
  CASE o = "typeerror_fetch" -> TypeError("Failed to fetch")
    [] o = "typeerror_other" -> TypeError("Load failed")
    [] o = "timeout" -> AppError(NETWORK_ERROR, "NETWORK")
    [] o = "badjson" -> JsError("Unexpected token < in JSON at position 0")
    [] o = "http403" -> JsError("HTTP 403: Forbidden")
    [] o = "http404" -> JsError("HTTP 404: Not Found")
    [] o = "http429" -> JsError("HTTP 429: Too Many Requests")
    [] o = "http429_quota" -> JsError("HTTP 429: quota exceeded")
    [] o = "http500" -> JsError("HTTP 500: Internal Server Error")

\* A default retry budget that is one too large.
DefaultRetries_OneMore == MAX_RETRIES + 1

\* fetchWithRetry: retries = API_CONFIG.MAX_RETRIES
DefaultRetries == MAX_RETRIES

\* A backoff that grows linearly instead of doubling.
NextDelay_Linear(d) == d + RETRY_DELAY

\* fetchWithRetry: delay *= 2
NextDelay(d) == d * 2

\* fetchWithRetry: attempt < retries && shouldRetry(lastError, attempt, retries)
CanRetry(error, att, retries) ==
  att < retries /\ shouldRetry(error, att, retries)

\* The error the operation's validation throws before any fetch (NoError if
\* the arguments pass).
ValidationError(c) ==
  CASE c.op = "getSurah" ->
         IF isValidSurahNumber(c.surah) THEN NoError ELSE JsError(INVALID_SURAH)
    [] c.op = "getAyahDetails" ->
         IF ~isValidSurahNumber(c.surah) THEN JsError(INVALID_SURAH)
         ELSE IF ~isValidAyahNumber(c.ayah) THEN JsError(INVALID_AYAH)
         ELSE NoError
    [] c.op = "searchVerses" ->
         IF c.query.k = "undef"
           THEN TypeError("Cannot read properties of undefined (reading 'trim')")
         ELSE IF ~searchQueryAccepted(c.query.s) THEN JsError(QUERY_TOO_SHORT)
         ELSE IF ~isValidPageNumber(c.page) THEN JsError(INVALID_PAGE)
         ELSE NoError
    [] OTHER -> NoError

\* A catch block that lets the failure escape.
executeToolCatch_Rethrow(error) == Rejected(handleError(error))

\* executeTool: catch (error) { ... return { error: ... } }
executeToolCatch(error) == Resolved(Val("error", "-"))

\* An executor that hands on whatever the operation resolved to.
executeToolReturn_PassThrough(c, v) == Resolved(v)

\* executeTool: what it returns when the data-client operation resolved to v
executeToolReturn(c, v) ==
  IF c.op = "searchVerses" /\ v.k = "emptyResults"
    THEN Resolved(Val("message", "-"))
    ELSE Resolved(v)

\* The operation's catch block: throw handleError(error); then, through
\* executeTool, the executor's catch block.
ServiceReject(c, error) ==
  IF c.via = "tool" THEN executeToolCatch(handleError(error))
  ELSE Rejected(handleError(error))

\* The operation's return statement for the payload of its last fetch.
ServiceReturn(c, o) ==
  LET v == CASE c.op = "getSurahs" ->
                  IF o = "ok_full" THEN Val("chapters", "-") ELSE Val("emptyList", "-")
             [] c.op = "getSurah" ->
                  IF o = "ok_full" THEN Val("chapter", "-") ELSE Val("undefined", "-")
             [] c.op = "searchVerses" ->
                  IF o = "ok_full" THEN Val("results", "-") ELSE Val("emptyResults", "-")
             [] OTHER ->
                  IF o = "ok_full" THEN Val("verse", "uthmani") ELSE Val("verse", "")
  IN  IF c.op = "getAyahDetails" /\ o = "ok_missing"
        \* uthmaniData.verses[0] with verses undefined
        THEN ServiceReject(c, TypeError("Cannot read properties of undefined (reading '0')"))
      ELSE IF c.via = "tool" THEN executeToolReturn(c, v)
      ELSE Resolved(v)

ServiceRejects(c, o) == c.op = "getAyahDetails" /\ o = "ok_missing"

\* The data-client operation, or executeTool(name, args), up to its first await.
StartOp(c) ==
  /\ dpc \in {"idle", "done"}
  /\ nops < MaxOps
  /\ nops' = nops + 1
  /\ dcall' = c
  /\ stage' = 1 /\ attempt' = 0 /\ delay' = RETRY_DELAY /\ lastError' = NoError
  /\ waits' = <<>> /\ failed' = <<>>
  /\ IF c.via = "tool" /\ c.op = "none"
       THEN \* default: throw new Error(`Tool ${name} not found`)
            /\ dpc' = "done" /\ dcStatus' = "notcalled" /\ fstatus' = "none"
            /\ fetches' = 0 /\ opFetches' = 0
            /\ dresult' = executeToolCatch(JsError("Tool not found"))
     ELSE IF c.via = "tool" /\ ~c.hasArgs
       THEN \* args.query / args.surah_number on undefined
            /\ dpc' = "done" /\ dcStatus' = "notcalled" /\ fstatus' = "none"
            /\ fetches' = 0 /\ opFetches' = 0
            /\ dresult' = executeToolCatch(TypeError("Cannot read properties of undefined"))
     ELSE IF ValidationError(c) # NoError
       THEN /\ dpc' = "done" /\ dcStatus' = "rejected" /\ fstatus' = "none"
            /\ fetches' = 0 /\ opFetches' = 0
            /\ dresult' = ServiceReject(c, ValidationError(c))
     ELSE   /\ dpc' = "inflight" /\ dcStatus' = "pending" /\ fstatus' = "pending"
            /\ fetches' = 1 /\ opFetches' = 1
            /\ dresult' = Unsettled
  /\ UNCHANGED <<gemVars, rateVars, imgVars, chatVars, sanVars, histVars, anaVars,
            shareVars>>

\* The awaited race of fetchFn() with the timeout settles.
FetchSettles(o) ==
  /\ dpc = "inflight"
  /\ IF o \in OkOutcomes
       THEN IF dcall.op = "getAyahDetails" /\ stage = 1
              THEN \* the second fetchWithRetry call starts
                   /\ stage' = 2 /\ attempt' = 0 /\ delay' = RETRY_DELAY
                   /\ lastError' = NoError /\ waits' = <<>> /\ failed' = <<>>
                   /\ fetches' = 1 /\ opFetches' = opFetches + 1
                   /\ UNCHANGED <<dpc, fstatus, dcStatus, dresult>>
              ELSE /\ dpc' = "done" /\ fstatus' = "returned"
                   /\ dcStatus' = IF ServiceRejects(dcall, o) THEN "rejected" ELSE "resolved"
                   /\ dresult' = ServiceReturn(dcall, o)
                   /\ UNCHANGED <<stage, attempt, delay, lastError, waits, failed,
                                  fetches, opFetches>>
       ELSE LET e == handleError(RawError(o)) IN
            /\ lastError' = e
            /\ failed' = Append(failed, o)
            /\ IF CanRetry(e, attempt, DefaultRetries)
                 THEN /\ dpc' = "waiting"
                      /\ UNCHANGED <<fstatus, dcStatus, dresult>>
                 ELSE /\ dpc' = "done" /\ fstatus' = "thrown"
                      /\ dcStatus' = "rejected"
                      /\ dresult' = ServiceReject(dcall, e)
            /\ UNCHANGED <<stage, attempt, delay, waits, fetches, opFetches>>
  /\ UNCHANGED <<dcall, nops, gemVars, rateVars, imgVars, chatVars, sanVars,
            histVars, anaVars, shareVars>>

\* The backoff timer fires: delay doubles, the loop goes round.
BackoffElapses ==
  /\ dpc = "waiting"
  /\ waits' = Append(waits, delay)
  /\ delay' = NextDelay(delay)
  /\ attempt' = attempt + 1
  /\ IF attempt + 1 <= DefaultRetries
       THEN /\ dpc' = "inflight"
            /\ fetches' = fetches + 1 /\ opFetches' = opFetches + 1
            /\ UNCHANGED <<fstatus, dcStatus, dresult>>
       ELSE \* the loop ends: throw lastError
            /\ dpc' = "done" /\ fstatus' = "thrown" /\ dcStatus' = "rejected"
            /\ dresult' = ServiceReject(dcall, lastError)
            /\ UNCHANGED <<fetches, opFetches>>
  /\ UNCHANGED <<dcall, stage, lastError, failed, nops, gemVars, rateVars, imgVars, chatVars,
            sanVars, histVars, anaVars, shareVars>>

InitData ==
  /\ dpc = "idle" /\ dcall = NoCall /\ stage = 1 /\ attempt = 0
  /\ delay = RETRY_DELAY /\ lastError = NoError /\ waits = <<>> /\ fetches = 0
  /\ opFetches = 0 /\ failed = <<>> /\ fstatus = "none"
  /\ dcStatus = "notcalled" /\ dresult = Unsettled /\ nops = 0

(***************************************************************************)
(* geminiService.chat over apiCallWithRetry.                               *)
(***************************************************************************)
GemOk == {"ok_text", "ok_empty", "ok_tools"}
DirectErr == {"sdk429", "sdkQuota", "sdk403", "sdk500", "network"}
ProxyErr == {"proxy429", "proxy400", "proxy500", "gateway429", "network"}
GemOutcomes(mode) == GemOk \cup (IF mode = "direct" THEN DirectErr ELSE ProxyErr)

\* The value fn() rejects with.  Direct mode: the SDK's error, which carries
\* the HTTP status.  Proxy mode: new Error(errorData.error || `HTTP ...`).
GemRawError(o) ==
  CASE o = "sdk429" -> Err("Error", "-", "got status: 429 Too Many Requests", 429)
    [] o = "sdkQuota" -> Err("Error", "-", "got status: 429 You exceeded your current quota", 429)
    [] o = "sdk403" -> Err("Error", "-", "got status: 403 Forbidden", 403)
    [] o = "sdk500" -> Err("Error", "-", "got status: 500 Internal", 500)
    [] o = "network" -> TypeError("Failed to fetch")
    [] o = "proxy429" -> JsError("Too many requests. Please try again later.")
    [] o = "proxy400" -> JsError("Invalid message")
    [] o = "proxy500" -> JsError("AI service error")
    [] o = "gateway429" -> JsError("HTTP 429: Too Many Requests")

QUOTA_THROWN == "QUOTA_EXCEEDED: Gemini API daily quota exceeded. Please try again tomorrow or upgrade your plan."
RATE_THROWN  == "RATE_LIMIT: Too many requests. Please wait a moment and try again."

\* apiCallWithRetry: isRateLimit
isRateLimit(error) ==
  \/ includes(error.text, "429")
  \/ error.status = 429
  \/ includes(error.text, "quota")
  \/ includes(error.text, "RATE_LIMIT")

\* apiCallWithRetry: isQuotaExceeded
isQuotaExceeded(error) ==
  \/ includes(error.text, "quota")
  \/ includes(error.text, "exceeded your current quota")

\* apiCallWithRetry's catch block: "retry", or the error it throws
apiCallCatch(error, retries) ==
  IF isRateLimit(error)
    THEN IF isQuotaExceeded(error) THEN [do |-> "throw", err |-> JsError(QUOTA_THROWN)]
         ELSE IF retries > 0 THEN [do |-> "retry", err |-> NoError]
         ELSE [do |-> "throw", err |-> JsError(RATE_THROWN)]
    ELSE [do |-> "throw", err |-> error]

ChatResolved(text, tools) == [st |-> "resolved", text |-> text, tools |-> tools, err |-> NoError]
ChatRejected(e) == [st |-> "rejected", text |-> "", tools |-> FALSE, err |-> e]
ChatUnsettled == [st |-> "none", text |-> "", tools |-> FALSE, err |-> NoError]

\* geminiService.chat up to its first await: fn() is invoked.
StartChat(mode) ==
  /\ gpc \in {"idle", "done"}
  /\ nchats < MaxChats
  /\ nchats' = nchats + 1
  /\ gmode' = mode /\ gmodel' = "flash"
  /\ gretries' = API_RETRIES /\ gdelay' = API_DELAY
  /\ gwaits' = <<>> /\ gcalls' = 1 /\ gfailed' = <<>> /\ gthrown' = "-"
  /\ gresult' = ChatUnsettled
  /\ gpc' = "calling"
  /\ UNCHANGED <<dataVars, rateVars, imgVars, chatVars, sanVars, histVars,
            anaVars, shareVars>>

\* fn() settles inside apiCallWithRetry.
ModelSettles(o) ==
  /\ gpc = "calling"
  /\ o \in GemOutcomes(gmode)
  /\ IF o \in GemOk
       THEN /\ gpc' = "done"
            \* text: response.text || ''
            /\ gresult' = ChatResolved(IF o = "ok_text" THEN "text" ELSE "", o = "ok_tools")
            /\ UNCHANGED <<gmodel, gretries, gdelay, gwaits, gcalls, gfailed, gthrown>>
       ELSE LET e == GemRawError(o)
                c == apiCallCatch(e, gretries)
            IN  /\ gfailed' = Append(gfailed, o)
                /\ IF c.do = "retry"
                     THEN /\ gpc' = "waiting"
                          /\ UNCHANGED <<gmodel, gretries, gdelay, gwaits, gcalls, gthrown, gresult>>
                   ELSE IF /\ gmode = "direct" /\ gmodel = "flash"
                           /\ (includes(c.err.text, "403") \/ c.err.status = 403)
                     THEN \* fall back to the stable model: a new apiCallWithRetry
                          /\ gmodel' = "stable" /\ gpc' = "calling"
                          /\ gretries' = API_RETRIES /\ gdelay' = API_DELAY
                          /\ gwaits' = <<>> /\ gcalls' = 1 /\ gthrown' = "-"
                          /\ UNCHANGED gresult
                   ELSE   \* chat's catch: throw new Error(ERROR_MESSAGES.GEMINI_ERROR)
                          /\ gpc' = "done" /\ gthrown' = c.err.text
                          /\ gresult' = ChatRejected(JsError(GEMINI_ERROR))
                          /\ UNCHANGED <<gmodel, gretries, gdelay, gwaits, gcalls>>
  /\ UNCHANGED <<gmode, nchats, dataVars, rateVars, imgVars, chatVars, sanVars,
            histVars, anaVars, shareVars>>

\* apiCallWithRetry's timer fires: apiCallWithRetry(fn, retries - 1, delay * 2)
GemBackoffElapses ==
  /\ gpc = "waiting"
  /\ gwaits' = Append(gwaits, gdelay)
  /\ gretries' = gretries - 1
  /\ gdelay' = gdelay * 2
  /\ gcalls' = gcalls + 1
  /\ gpc' = "calling"
  /\ UNCHANGED <<gmode, gmodel, gfailed, gthrown, gresult, nchats,
                 dataVars, rateVars, imgVars, chatVars, sanVars, histVars,
                 anaVars, shareVars>>

InitGem ==
  /\ gpc = "idle" /\ gmode = "direct" /\ gmodel = "flash"
  /\ gretries = API_RETRIES /\ gdelay = API_DELAY /\ gwaits = <<>> /\ gcalls = 0
  /\ gfailed = <<>> /\ gthrown = "-" /\ gresult = ChatUnsettled /\ nchats = 0

(***************************************************************************)
(* Chat proxy: handler and its in-memory fixed-window rate limiter.        *)
(***************************************************************************)
IPs == {"203.0.113.7"}
NoRecord == [count |-> 0, resetTime |-> 0]
TickSteps == {1, RATE_WINDOW}
Methods == {"POST", "OPTIONS", "GET"}
\* req.body.message: undefined, a non-string, or a string of some length;
\* "nobody": req.body itself is missing, so the destructuring throws
MsgArgs == {[k |-> "nobody", len |-> 0],
            [k |-> "undef", len |-> 0], [k |-> "number", len |-> 0],
            [k |-> "str", len |-> 0], [k |-> "str", len |-> MAX_MESSAGE_LENGTH],
            [k |-> "str", len |-> MAX_MESSAGE_LENGTH + 1]}
\* ai.models.generateContent resolves, or throws for a rate-limit/quota
\* failure (429), a credential failure (403) or another failure
ProviderOutcomes == {"ok", "rateLimited", "forbidden", "unavailable"}
ProviderFailures == ProviderOutcomes \ {"ok"}
ALLOWED_ORIGINS == {"http://localhost:5173", "http://localhost:3000",
                    "https://sahabatquran.com", "https://sahabat-quran.vercel.app"}
\* req.headers.origin: an allowed origin, another origin, or no header ('')
Origins == {"https://sahabatquran.com", "https://evil.example", ""}

\* A limiter that lets the request through when count equals the limit.
overLimit_OffByOne(record) == record.count > RATE_LIMIT

\* checkRateLimit: record.count >= RATE_LIMIT
overLimit(record) == record.count >= RATE_LIMIT

\* A limiter whose new window starts with an empty counter.
checkRateLimit_ResetToZero(map, ip, t) ==
  LET record == map[ip] IN
  IF record = NoRecord \/ t > record.resetTime
    THEN [pass |-> TRUE,
          map |-> [map EXCEPT ![ip] = [count |-> 0, resetTime |-> t + RATE_WINDOW]]]
  ELSE IF overLimit(record) THEN [pass |-> FALSE, map |-> map]
  ELSE [pass |-> TRUE, map |-> [map EXCEPT ![ip].count = record.count + 1]]

\* A limiter that restarts the window of a caller it rejects.
checkRateLimit_Penalty(map, ip, t) ==
  LET record == map[ip] IN
  IF record = NoRecord \/ t > record.resetTime
    THEN [pass |-> TRUE,
          map |-> [map EXCEPT ![ip] = [count |-> 1, resetTime |-> t + RATE_WINDOW]]]
  ELSE IF overLimit(record)
    THEN [pass |-> FALSE, map |-> [map EXCEPT ![ip].resetTime = t + RATE_WINDOW]]
  ELSE [pass |-> TRUE, map |-> [map EXCEPT ![ip].count = record.count + 1]]

\* checkRateLimit(ip) at time t: whether the request passes, and the map after
checkRateLimit(map, ip, t) ==
  LET record == map[ip] IN
  IF record = NoRecord \/ t > record.resetTime
    THEN [pass |-> TRUE,
          map |-> [map EXCEPT ![ip] = [count |-> 1, resetTime |-> t + RATE_WINDOW]]]
  ELSE IF overLimit(record) THEN [pass |-> FALSE, map |-> map]
  ELSE [pass |-> TRUE, map |-> [map EXCEPT ![ip].count = record.count + 1]]

NoRequest == [ip |-> "-", method |-> "-", origin |-> "", msg |-> [k |-> "undef", len |-> 0]]
Response(status, forwarded) == [status |-> status, forwarded |-> forwarded]

\* A handler that forwards a message of any length.
handlerBody_NoLengthCheck(msg, provider) ==
  IF msg.k = "nobody" THEN Response(500, FALSE)
  ELSE IF msg.k # "str" \/ msg.len = 0 THEN Response(400, FALSE)
  ELSE IF provider = "ok" THEN Response(200, TRUE)
  ELSE Response(500, TRUE)

\* handler's try block after the rate-limit check passed
handlerBody(msg, provider) ==
  IF msg.k = "nobody" THEN Response(500, FALSE)
  ELSE IF msg.k # "str" \/ msg.len = 0 THEN Response(400, FALSE)
  ELSE IF msg.len > MAX_MESSAGE_LENGTH THEN Response(400, FALSE)
  ELSE IF provider = "ok" THEN Response(200, TRUE)
  ELSE Response(500, TRUE)

\* A handler that echoes whatever origin it is given.
corsHeader_EchoAny(origin) == origin

\* handler: the Access-Control-Allow-Origin header it sets
corsHeader(origin) == IF origin \in ALLOWED_ORIGINS THEN origin ELSE "-"

\* handler: the error string of the JSON body it sends
handlerError(method, pass, msg, provider) ==
  IF method = "OPTIONS" THEN ""
  ELSE IF method # "POST" THEN "Method not allowed"
  ELSE IF ~pass THEN "Too many requests. Please try again later."
  ELSE IF msg.k = "nobody" THEN "AI service error"
  ELSE IF msg.k # "str" \/ msg.len = 0 THEN "Invalid message"
  ELSE IF msg.len > MAX_MESSAGE_LENGTH THEN "Message too long"
  ELSE IF provider = "ok" THEN ""
  ELSE "AI service error"

Saturate(n) == IF n > RATE_LIMIT + 1 THEN RATE_LIMIT + 1 ELSE n
ProbedIp == CHOOSE ip \in IPs : TRUE

\* One request to the chat proxy.  startProbe: the observer starts its
\* rolling interval at this request.
Request(method, ip, origin, msg, provider, startProbe) ==
  /\ startProbe => (method = "POST" /\ ip = ProbedIp /\ probeCount = 0)
  /\ req' = [ip |-> ip, method |-> method, origin |-> origin, msg |-> msg]
  /\ cors' = corsHeader(origin)
  /\ IF method = "OPTIONS"
       THEN /\ resp' = Response(200, FALSE)
            /\ respError' = handlerError(method, TRUE, msg, provider)
            /\ providerCall' = "-"
            /\ UNCHANGED <<rateLimitMap, winStart, winCount, probeStart, probeCount>>
     ELSE IF method # "POST"
       THEN /\ resp' = Response(405, FALSE)
            /\ respError' = handlerError(method, TRUE, msg, provider)
            /\ providerCall' = "-"
            /\ UNCHANGED <<rateLimitMap, winStart, winCount, probeStart, probeCount>>
     ELSE LET r == checkRateLimit(rateLimitMap, ip, srvNow)
              answer == IF r.pass THEN handlerBody(msg, provider)
                        ELSE Response(429, FALSE)
          IN
          /\ rateLimitMap' = r.map
          /\ resp' = answer
          /\ respError' = handlerError(method, r.pass, msg, provider)
          /\ providerCall' = IF answer.forwarded THEN provider ELSE "-"
          /\ IF winCount[ip] = 0 \/ srvNow > winStart[ip] + RATE_WINDOW
               THEN /\ winStart' = [winStart EXCEPT ![ip] = srvNow]
                    /\ winCount' = [winCount EXCEPT ![ip] = 1]
               ELSE /\ winCount' = [winCount EXCEPT ![ip] = Saturate(winCount[ip] + 1)]
                    /\ UNCHANGED winStart
          /\ IF startProbe
               THEN probeStart' = srvNow /\ probeCount' = 1
             ELSE IF probeCount = 0 \/ ip # ProbedIp
               THEN UNCHANGED <<probeStart, probeCount>>
             ELSE /\ probeCount' = Saturate(probeCount + 1)
                  /\ UNCHANGED probeStart
  /\ UNCHANGED <<srvNow, nticks, dataVars, gemVars, imgVars, chatVars, sanVars,
            histVars, anaVars, shareVars>>

\* The proxy's clock advances.
SrvTick(d) ==
  /\ nticks < MaxTicks
  /\ nticks' = nticks + 1
  /\ srvNow' = srvNow + d
  /\ UNCHANGED <<rateLimitMap, req, resp, cors, respError, providerCall,
                 winStart, winCount, probeStart, probeCount,
                 dataVars, gemVars, imgVars, chatVars, sanVars, histVars,
                 anaVars, shareVars>>

InitRate ==
  /\ srvNow = 0 /\ rateLimitMap = [ip \in IPs |-> NoRecord]
  /\ req = NoRequest
  /\ resp = Response(0, FALSE) /\ cors = "-" /\ respError = ""
  /\ providerCall = "-"
  /\ winStart = [ip \in IPs |-> 0] /\ winCount = [ip \in IPs |-> 0]
  /\ probeStart = 0 /\ probeCount = 0 /\ nticks = 0

(***************************************************************************)
(* Image proxy: the same handler shape with its own rateLimitMap, budget   *)
(* and payload rule (api/gemini-image.ts).                                 *)
(***************************************************************************)
IMAGE_RATE_LIMIT == 10
IMAGE_RATE_WINDOW == 3600000
MAX_THEME_LENGTH == 200

ImageTickSteps == {1, IMAGE_RATE_WINDOW}
\* req.body.theme, as MsgArgs
ThemeArgs == {[k |-> "nobody", len |-> 0],
              [k |-> "undef", len |-> 0], [k |-> "number", len |-> 0],
              [k |-> "str", len |-> 0], [k |-> "str", len |-> MAX_THEME_LENGTH],
              [k |-> "str", len |-> MAX_THEME_LENGTH + 1]}
\* The fetch to the provider: an answer with or without image data, an
\* answer with !ok and a status, or a rejected fetch
ImageProviderOutcomes == {"image", "noImage", "http429", "http403", "http500", "throws"}

\* A limiter that lets the request through when count equals the limit.
imageOverLimit_OffByOne(record) == record.count > IMAGE_RATE_LIMIT

\* checkRateLimit: record.count >= RATE_LIMIT
imageOverLimit(record) == record.count >= IMAGE_RATE_LIMIT

\* checkRateLimit(ip) of the image proxy at time t
imageCheckRateLimit(map, ip, t) ==
  LET record == map[ip] IN
  IF record = NoRecord \/ t > record.resetTime
    THEN [pass |-> TRUE,
          map |-> [map EXCEPT ![ip] = [count |-> 1, resetTime |-> t + IMAGE_RATE_WINDOW]]]
  ELSE IF imageOverLimit(record) THEN [pass |-> FALSE, map |-> map]
  ELSE [pass |-> TRUE, map |-> [map EXCEPT ![ip].count = record.count + 1]]

ImageResponse(status, forwarded, error, acao, provider) ==
  [status |-> status, forwarded |-> forwarded, error |-> error, cors |-> acao,
   provider |-> provider]

\* the image handler's try block after the rate-limit check passed
imageHandlerBody(theme, provider, acao) ==
  IF theme.k = "nobody"
    THEN ImageResponse(500, FALSE, "Internal server error", acao, "-")
  ELSE IF theme.k # "str" \/ theme.len = 0
    THEN ImageResponse(400, FALSE, "Invalid theme", acao, "-")
  ELSE IF theme.len > MAX_THEME_LENGTH
    THEN ImageResponse(400, FALSE, "Theme description too long", acao, "-")
  ELSE CASE provider = "image" -> ImageResponse(200, TRUE, "", acao, provider)
         [] provider = "noImage" ->
              ImageResponse(500, TRUE, "Failed to generate image", acao, provider)
         [] provider = "http429" ->
              ImageResponse(429, TRUE, "Image generation service error", acao, provider)
         [] provider = "http403" ->
              ImageResponse(403, TRUE, "Image generation service error", acao, provider)
         [] provider = "http500" ->
              ImageResponse(500, TRUE, "Image generation service error", acao, provider)
         [] OTHER -> ImageResponse(500, TRUE, "Internal server error", acao, provider)

\* One request to the image proxy.  keySet: GEMINI_API_KEY is configured.
ImageRequest(method, ip, origin, keySet, theme, provider) ==
  LET acao == corsHeader(origin) IN
  /\ imgReq' = [ip |-> ip, method |-> method, origin |-> origin,
                keySet |-> keySet, theme |-> theme]
  /\ IF method = "OPTIONS"
       THEN /\ imgResp' = ImageResponse(200, FALSE, "", acao, "-")
            /\ UNCHANGED imgRateLimitMap
     ELSE IF method # "POST"
       THEN /\ imgResp' = ImageResponse(405, FALSE, "Method not allowed", acao, "-")
            /\ UNCHANGED imgRateLimitMap
     ELSE IF ~keySet
       THEN /\ imgResp' = ImageResponse(500, FALSE, "Server configuration error", acao, "-")
            /\ UNCHANGED imgRateLimitMap
     ELSE LET r == imageCheckRateLimit(imgRateLimitMap, ip, imgNow) IN
          /\ imgRateLimitMap' = r.map
          /\ imgResp' =
               IF r.pass THEN imageHandlerBody(theme, provider, acao)
               ELSE ImageResponse(429, FALSE,
                      "Too many image generation requests. Please try again later.",
                      acao, "-")
  /\ UNCHANGED <<imgNow, imgTicks, dataVars, gemVars, rateVars, chatVars, sanVars,
            histVars, anaVars, shareVars>>

\* The image proxy's clock advances.
ImageTick(d) ==
  /\ imgTicks < MaxTicks
  /\ imgTicks' = imgTicks + 1
  /\ imgNow' = imgNow + d
  /\ UNCHANGED <<imgRateLimitMap, imgReq, imgResp, dataVars, gemVars, rateVars, chatVars,
            sanVars, histVars, anaVars, shareVars>>

InitImage ==
  /\ imgNow = 0 /\ imgRateLimitMap = [ip \in IPs |-> NoRecord]
  /\ imgReq = [ip |-> "-", method |-> "-", origin |-> "", keySet |-> TRUE,
               theme |-> [k |-> "undef", len |-> 0]]
  /\ imgResp = ImageResponse(0, FALSE, "", "-", "-") /\ imgTicks = 0

(***************************************************************************)
(* ChatWindow: handleSubmit / handleClear.  A handleSubmit invocation is a *)
(* turn; between two awaits its code runs without interruption.            *)
(***************************************************************************)
Turns == 1..MaxTurns
Inputs == {"ayat tentang sabar"}
FALLBACK_TEXT == "Hasil telah diproses."
APOLOGY_GENERIC == "Maaf, Sahabat Quran sedang mengalami sedikit kendala."
APOLOGY_QUOTA == "Kuota harian habis. Silakan coba lagi nanti."
MODEL_TEXT == "answer"

\* The text property of a resolved model call: response.text || ''
ResponseText(o) == IF o = "text" THEN MODEL_TEXT ELSE ""

Msg(role, content, toolResults) ==
  [role |-> role, content |-> content, toolResults |-> toolResults]
initialMessage == Msg("model", "Assalamu'alaikum", <<>>)

\* The tool calls a model response may carry: the first n of four distinct
\* calls, n <= MaxToolCalls (none when n = 0).
AllToolCalls ==
  <<[name |-> SEARCH_VERSE, args |-> "query=zzz"],
    [name |-> GET_SURAH_INFO, args |-> "surah_number=1"],
    [name |-> "get_tafsir", args |-> "surah_number=1"],
    [name |-> GET_AYAH_DETAILS, args |-> "surah_number=2,ayah_number=255"]>>
ToolCallLists ==
  {SubSeq(AllToolCalls, 1, n) :
     n \in 1..(IF MaxToolCalls < Len(AllToolCalls) THEN MaxToolCalls
               ELSE Len(AllToolCalls))}

\* What executeTool resolves to for a call (it never rejects).  ChatWindow
\* never inspects the value, so each call of AllToolCalls has one outcome:
\* the search finds nothing, the unregistered name is an error, the others
\* return the data asked for.
ToolValue(tc) ==
  CASE tc.name = SEARCH_VERSE -> [k |-> "message", of |-> "-"]
    [] tc.name \in {GET_SURAH_INFO, GET_AYAH_DETAILS} -> [k |-> "data", of |-> tc.args]
    [] OTHER -> [k |-> "error", of |-> "-"]
Pending == [k |-> "pending", of |-> "-"]

NoTurn == [pc |-> "idle", requestTime |-> 0, toolCalls |-> <<>>,
           promiseVal |-> <<>>, toolResults |-> <<>>,
           functionResponses |-> <<>>, executed |-> 0, cleared |-> FALSE]

\* handleSubmit: requestTime < lastClearTimestamp.current
Stale(requestTime, lastClear) == requestTime < lastClear

\* Results collected last-first instead of by the position of their promise.
PromiseAll_Reversed(vals) == [k \in 1..Len(vals) |-> vals[Len(vals) + 1 - k]]

\* Promise.all: the values in the order of the promises handed in, whatever
\* the order in which they settled
PromiseAll(vals) == vals

\* A catch block that only logs.
CatchAppend_Silent(msgs, error) == msgs

\* handleSubmit's catch block (once the turn is known not to be stale)
CatchAppend(msgs, error) ==
  Append(msgs, Msg("model",
                   IF includes(error.text, "429") THEN APOLOGY_QUOTA ELSE APOLOGY_GENERIC,
                   <<>>))

\* handleSubmit's finally block: isLoading after it
\* (if (requestTime >= lastClearTimestamp.current) setIsLoading(false))
FinallyLoading(tr, lastClear, loading) ==
  IF tr.requestTime >= lastClear THEN FALSE ELSE loading

\* The turn has ended: its locals are gone.
DoneTurn == [NoTurn EXCEPT !.pc = "done"]

\* setInput on the text field's change event
Type(s) ==
  /\ input # s
  /\ input' = s
  /\ UNCHANGED <<now, lastClearTimestamp, messages, isLoading, turns, nturns,
                 dataVars, gemVars, rateVars, imgVars, sanVars, histVars,
                 anaVars, shareVars>>

\* Date.now(): the clock has advanced by d milliseconds since it was last read.
ClockSteps == {0, 1}
DateNow(d) == now + d

handleClear(d) ==
  /\ d \in ClockSteps /\ DateNow(d) <= MaxTime
  /\ now' = DateNow(d)
  /\ lastClearTimestamp' = DateNow(d)
  /\ messages' = <<initialMessage>>
  /\ input' = ""
  /\ isLoading' = FALSE
  /\ turns' = [t \in Turns |->
                 IF turns[t].pc \notin {"idle", "done"}
                   THEN [turns[t] EXCEPT !.cleared = TRUE]
                 ELSE turns[t]]
  /\ UNCHANGED <<nturns, dataVars, gemVars, rateVars, imgVars, sanVars, histVars,
            anaVars, shareVars>>

\* handleSubmit up to the first await geminiService.chat(...)
handleSubmit(d) ==
  /\ input # "" /\ ~isLoading            \* if (!input.trim() || isLoading) return
  /\ d \in ClockSteps /\ DateNow(d) <= MaxTime
  /\ now' = DateNow(d)
  /\ nturns < MaxTurns
  /\ nturns' = nturns + 1
  /\ input' = ""
  /\ messages' = Append(messages, Msg("user", input, <<>>))
  /\ isLoading' = TRUE
  /\ turns' = [turns EXCEPT ![nturns + 1] =
                 [NoTurn EXCEPT !.pc = "chat1", !.requestTime = DateNow(d)]]
  /\ UNCHANGED <<lastClearTimestamp, dataVars, gemVars, rateVars, imgVars,
            sanVars, histVars, anaVars, shareVars>>

\* The catch and finally blocks of turn t for a rejected model call.
TurnCatch(t, error) ==
  LET tr == turns[t] IN
  IF Stale(tr.requestTime, lastClearTimestamp)
    THEN /\ turns' = [turns EXCEPT ![t] = DoneTurn]
         /\ isLoading' = FinallyLoading(tr, lastClearTimestamp, isLoading)
         /\ UNCHANGED messages
    ELSE /\ messages' = CatchAppend(messages, error)
         /\ turns' = [turns EXCEPT ![t] = DoneTurn]
         /\ isLoading' = FinallyLoading(tr, lastClearTimestamp, isLoading)

\* return inside the try block of a stale turn; finally still runs.
TurnReturnStale(t) ==
  LET tr == turns[t] IN
  /\ turns' = [turns EXCEPT ![t] = DoneTurn]
  /\ isLoading' = FinallyLoading(tr, lastClearTimestamp, isLoading)
  /\ UNCHANGED messages

\* setMessages(prev => [...prev, m]) as the last statement of the try block.
TurnAppend(t, m) ==
  LET tr == turns[t] IN
  /\ messages' = Append(messages, m)
  /\ turns' = [turns EXCEPT ![t] = DoneTurn]
  /\ isLoading' = FinallyLoading(tr, lastClearTimestamp, isLoading)

\* A test that sends every response down the tool branch.
hasToolCalls_Always(calls) == TRUE

\* handleSubmit: response.toolCalls && response.toolCalls.length > 0
hasToolCalls(calls) == Len(calls) > 0

\* The first geminiService.chat call of turn t settles.
\* o.kind: "reject", or the response's text; o.calls: response.toolCalls
Chat1Outcomes ==
  {[kind |-> k, calls |-> <<>>] : k \in {"text", "empty", "reject"}}
  \cup {[kind |-> k, calls |-> c] : k \in {"empty"}, c \in ToolCallLists}
Chat1Settles(t, o) ==
  /\ turns[t].pc = "chat1"
  /\ IF o.kind = "reject" THEN TurnCatch(t, JsError(GEMINI_ERROR))
     ELSE IF Stale(turns[t].requestTime, lastClearTimestamp) THEN TurnReturnStale(t)
     ELSE IF hasToolCalls(o.calls)
       THEN \* every executeTool call is dispatched; Promise.all is awaited
            /\ turns' = [turns EXCEPT ![t] =
                           [@ EXCEPT !.pc = "tools", !.toolCalls = o.calls,
                                     !.promiseVal = [i \in 1..Len(o.calls) |-> Pending]]]
            /\ UNCHANGED <<messages, isLoading>>
     ELSE TurnAppend(t, Msg("model", ResponseText(o.kind), <<>>))
  /\ UNCHANGED <<now, lastClearTimestamp, input, nturns,
                 dataVars, gemVars, rateVars, imgVars, sanVars, histVars,
                 anaVars, shareVars>>

\* The i-th executeTool call of turn t resolves; when it is the last one,
\* Promise.all resolves and the turn goes on to the second model call.
ToolSettles(t, i) ==
  LET tr == turns[t] IN
  /\ tr.pc = "tools"
  /\ i \in 1..Len(tr.toolCalls)
  /\ tr.promiseVal[i] = Pending
  /\ LET vals == [tr.promiseVal EXCEPT ![i] = ToolValue(tr.toolCalls[i])]
         tr1 == [tr EXCEPT !.promiseVal = vals, !.executed = @ + 1]
     IN  IF \E j \in 1..Len(vals) : vals[j] = Pending
           THEN /\ turns' = [turns EXCEPT ![t] = tr1]
                /\ UNCHANGED <<messages, isLoading>>
         ELSE LET results == PromiseAll(vals)
                  toolResults ==
                    [k \in 1..Len(vals) |->
                       [name |-> tr.toolCalls[k].name, args |-> tr.toolCalls[k].args,
                        result |-> results[k]]]
              IN  IF Stale(tr.requestTime, lastClearTimestamp)
                    THEN /\ turns' = [turns EXCEPT ![t] = DoneTurn]
                         /\ isLoading' = FinallyLoading(tr, lastClearTimestamp, isLoading)
                         /\ UNCHANGED messages
                    ELSE /\ turns' = [turns EXCEPT ![t] =
                              [tr1 EXCEPT !.pc = "chat2", !.promiseVal = <<>>,
                                 !.toolResults = toolResults,
                                 !.functionResponses =
                                   [k \in 1..Len(vals) |->
                                      [name |-> toolResults[k].name,
                                       response |-> toolResults[k].result]]]]
                         /\ UNCHANGED <<messages, isLoading>>
  /\ UNCHANGED <<now, lastClearTimestamp, input, nturns,
                 dataVars, gemVars, rateVars, imgVars, sanVars, histVars,
                 anaVars, shareVars>>

\* A final content that is the model's text as it came.
finalText_NoFallback(text) == text

\* handleSubmit: finalResponse.text || "Hasil telah diproses."
finalText(text) == IF text = "" THEN FALLBACK_TEXT ELSE text

\* Array.isArray(result) for a tool result: a list of search results, empty
\* or not (executeTool hands on the non-empty one as it is).
isArray(v) == v.k \in {"results", "emptyResults"}

\* components/ChatWindow.tsx: finalContent, with its own fallback texts (the
\* second one carries the number of results found).
NONE_FOUND_TEXT == "Tidak ada ayat yang ditemukan untuk pencarian tersebut."
FOUND_TEXT == "Saya menemukan ${count} ayat yang berkaitan. Silakan klik referensi di bawah untuk melihat detailnya."
PROCESSED_TEXT == "Saya telah memproses data Al-Quran untuk Anda. Silakan lihat referensi terverifikasi di bawah."
finalContent(text, toolResults) ==
  IF text = ""
    THEN IF toolResults[1].name = SEARCH_VERSE /\ isArray(toolResults[1].result)
           THEN IF toolResults[1].result.k = "results" THEN FOUND_TEXT
                ELSE NONE_FOUND_TEXT
         ELSE PROCESSED_TEXT
  ELSE text

\* The second geminiService.chat call of turn t settles.
Chat2Outcomes == {"text", "empty", "reject"}
Chat2Settles(t, o) ==
  /\ turns[t].pc = "chat2"
  /\ IF o = "reject" THEN TurnCatch(t, JsError(GEMINI_ERROR))
     ELSE IF Stale(turns[t].requestTime, lastClearTimestamp) THEN TurnReturnStale(t)
     ELSE TurnAppend(t, Msg("model", finalText(ResponseText(o)),
                            turns[t].toolResults))
  /\ UNCHANGED <<now, lastClearTimestamp, input, nturns,
                 dataVars, gemVars, rateVars, imgVars, sanVars, histVars,
                 anaVars, shareVars>>

InitChat ==
  /\ now = 0 /\ lastClearTimestamp = 0 /\ messages = <<initialMessage>>
  /\ isLoading = FALSE /\ input = "" /\ turns = [t \in Turns |-> NoTurn]
  /\ nturns = 0

(***************************************************************************)
(* Input sanitizing: sanitizeInput and validateSearchQuery applied to a    *)
(* string typed character by character.                                    *)
(***************************************************************************)
\* One more character of the input.
SanType(c) ==
  /\ sanPc = "typing" /\ Len(sanIn) < MaxInputLen
  /\ sanIn' = Append(sanIn, c)
  /\ UNCHANGED <<sanPc, sanOut, sanAgain, sanValid,
                 dataVars, gemVars, rateVars, imgVars, chatVars, histVars,
                 anaVars, shareVars>>

\* sanitizeInput(input)
SanSanitize ==
  /\ sanPc = "typing"
  /\ sanOut' = sanitizeInput(sanIn)
  /\ sanPc' = "once"
  /\ UNCHANGED <<sanIn, sanAgain, sanValid,
                 dataVars, gemVars, rateVars, imgVars, chatVars, histVars,
                 anaVars, shareVars>>

\* sanitizeInput applied to its own output
SanSanitizeAgain ==
  /\ sanPc = "once"
  /\ sanAgain' = sanitizeInput(sanOut)
  /\ sanPc' = "twice"
  /\ UNCHANGED <<sanIn, sanOut, sanValid,
                 dataVars, gemVars, rateVars, imgVars, chatVars, histVars,
                 anaVars, shareVars>>

\* validateSearchQuery(query): returns the sanitized query, or throws
SanValidate ==
  /\ sanPc = "typing"
  /\ sanOut' = sanitizeInput(sanIn)
  /\ sanValid' = IF searchQueryAccepted(sanIn) THEN "accepted" ELSE "rejected"
  /\ sanPc' = "validated"
  /\ UNCHANGED <<sanIn, sanAgain,
                 dataVars, gemVars, rateVars, imgVars, chatVars, histVars,
                 anaVars, shareVars>>

InitSan ==
  /\ sanPc = "typing" /\ sanIn = <<>> /\ sanOut = <<>> /\ sanAgain = <<>>
  /\ sanValid = "-"

(***************************************************************************)
(* chatHistoryService: conversations and messages kept in an external      *)
(* store.  A store request is applied atomically when it arrives; requests *)
(* of different calls arrive in any order.                                 *)
(***************************************************************************)
AUTH == "auth-user"
ANON == "anon-user"
LIST_LIMIT == 10
TITLE_LENGTH == 50
PREVIEW_LENGTH == 100

\* A text: what it says and how long it is.
Text(t, len) == [t |-> t, len |-> len]
\* s.substring(0, n) + (s.length > n ? '...' : '')
Shorten(s, n) == IF s.len > n THEN Text(s.t, n + 3) ELSE s

\* firstMessage of createConversation: the first conversation's is short or
\* longer than a title, the later ones are short.
FirstMessages(n) ==
  IF n = 0 THEN {Text("ayat tentang sabar", 18), Text("ayat tentang sabar", 60)}
  ELSE {Text("ayat tentang sabar", 18)}
\* message.content of saveMessage
SavedContents == {Text("jawaban", 7), Text("jawaban", 120)}
\* searchQuery of getConversations: none, one the titles contain, one they do not
SearchQueries == {"", "sabar", "zzz"}
\* title ILIKE %q%
ilike(title, q) == q = "sabar"

SaveCalls == 1..MaxSaves
NoSave == [pc |-> "idle", conv |-> 0, content |-> Text("", 0), stamp |-> 0]

\* getUserId: the signed-in user, else the anonymous id (created if absent)
getUserId(signed, anon) == IF signed THEN AUTH ELSE ANON

\* The anonymous id in localStorage after getUserId ran.
anonIdAfter(signed, anon) == IF signed THEN anon ELSE ANON

\* The user signs in: the auth client stores its session token.
SignIn ==
  /\ ~hSigned
  /\ hSigned' = TRUE
  /\ UNCHANGED <<anonId, convs, dbMessages, hclock, saves, merged, listed,
                 dataVars, gemVars, rateVars, imgVars, chatVars, sanVars,
                 anaVars, shareVars>>

\* createConversation(firstMessage); the row's timestamps are the store's.
createConversation(firstMessage, ok) ==
  /\ Len(convs) < MaxConvs
  /\ anonId' = anonIdAfter(hSigned, anonId)
  /\ IF ok
       THEN /\ hclock' = hclock + 1
            /\ convs' = Append(convs,
                  [user_id |-> getUserId(hSigned, anonId),
                   title |-> Shorten(firstMessage, TITLE_LENGTH),
                   preview |-> Shorten(firstMessage, TITLE_LENGTH),
                   updated_at |-> hclock + 1])
       ELSE UNCHANGED <<hclock, convs>>
  /\ UNCHANGED <<hSigned, dbMessages, saves, merged, listed,
                 dataVars, gemVars, rateVars, imgVars, chatVars, sanVars,
                 anaVars, shareVars>>

\* The ids in S, most recently updated first.
RECURSIVE ByRecency(_, _)
ByRecency(rows, S) ==
  IF S = {} THEN <<>>
  ELSE LET m == CHOOSE i \in S : \A j \in S : rows[i].updated_at >= rows[j].updated_at
       IN  <<m>> \o ByRecency(rows, S \ {m})

\* A listing without the cap.
Listing_Uncapped(rows, user, q) ==
  ByRecency(rows, {i \in 1..Len(rows) :
                     rows[i].user_id = user /\ (q = "" \/ ilike(rows[i].title, q))})

\* select * where user_id = user [and title ilike q] order by updated_at
\* desc limit 10
Listing(rows, user, q) ==
  LET all == ByRecency(rows, {i \in 1..Len(rows) :
                                rows[i].user_id = user
                                /\ (q = "" \/ ilike(rows[i].title, q))})
  IN  SubSeq(all, 1, IF Len(all) < LIST_LIMIT THEN Len(all) ELSE LIST_LIMIT)

\* getConversations(searchQuery): the query answers, fails or times out
getConversations(q, ok) ==
  /\ anonId' = anonIdAfter(hSigned, anonId)
  /\ listed' = [st |-> IF ok THEN "ok" ELSE "failed",
                user |-> getUserId(hSigned, anonId), q |-> q,
                rows |-> IF ok THEN Listing(convs, getUserId(hSigned, anonId), q)
                         ELSE <<>>]
  /\ UNCHANGED <<hSigned, convs, dbMessages, hclock, saves, merged,
                 dataVars, gemVars, rateVars, imgVars, chatVars, sanVars,
                 anaVars, shareVars>>

\* mergeAnonymousHistory(authUserId): one update statement, or an error
mergeAnonymousHistory(authUserId, ok) ==
  /\ hSigned
  /\ IF anonId = "none"
       THEN /\ merged' = [st |-> "noanon", ids |-> {}]
            /\ UNCHANGED convs
     ELSE IF ok
       THEN /\ convs' = [i \in 1..Len(convs) |->
                          IF convs[i].user_id = anonId
                            THEN [convs[i] EXCEPT !.user_id = authUserId]
                          ELSE convs[i]]
            /\ merged' = [st |-> "ok",
                          ids |-> {i \in 1..Len(convs) : convs[i].user_id = anonId}]
     ELSE /\ merged' = [st |-> "error", ids |-> {}]
          /\ UNCHANGED convs
  /\ UNCHANGED <<hSigned, anonId, dbMessages, hclock, saves, listed,
                 dataVars, gemVars, rateVars, imgVars, chatVars, sanVars,
                 anaVars, shareVars>>

\* saveMessage(conversationId, message) up to its first await: the insert
\* request is on its way.
SaveStart(c, id, content) ==
  /\ saves[c].pc = "idle"
  /\ \A b \in SaveCalls : b < c => saves[b].pc # "idle"
  /\ id \in 1..Len(convs)
  /\ saves' = [saves EXCEPT ![c] = [pc |-> "insert", conv |-> id,
                                    content |-> content, stamp |-> 0]]
  /\ UNCHANGED <<hSigned, anonId, convs, dbMessages, hclock, merged, listed,
                 dataVars, gemVars, rateVars, imgVars, chatVars, sanVars,
                 anaVars, shareVars>>

\* The insert is answered (an error is only logged); the call reads the
\* clock and sends the update of last_message_preview and updated_at.
SaveInserted(c, ok) ==
  /\ saves[c].pc = "insert"
  /\ dbMessages' = IF ok THEN Append(dbMessages, [conv |-> saves[c].conv,
                                                   content |-> saves[c].content])
                   ELSE dbMessages
  /\ hclock' = hclock + 1
  /\ saves' = [saves EXCEPT ![c].pc = "update", ![c].stamp = hclock + 1]
  /\ UNCHANGED <<hSigned, anonId, convs, merged, listed,
                 dataVars, gemVars, rateVars, imgVars, chatVars, sanVars,
                 anaVars, shareVars>>

\* The update arrives at the store: update ... where id = conversationId
SaveUpdated(c) ==
  /\ saves[c].pc = "update"
  /\ convs' = [convs EXCEPT ![saves[c].conv] =
                 [@ EXCEPT !.preview = Shorten(saves[c].content, PREVIEW_LENGTH),
                           !.updated_at = saves[c].stamp]]
  /\ saves' = [saves EXCEPT ![c].pc = "done"]
  /\ UNCHANGED <<hSigned, anonId, dbMessages, hclock, merged, listed,
                 dataVars, gemVars, rateVars, imgVars, chatVars, sanVars,
                 anaVars, shareVars>>

InitHist ==
  /\ hSigned = FALSE /\ anonId = "none" /\ convs = <<>> /\ dbMessages = <<>>
  /\ hclock = 0 /\ saves = [c \in SaveCalls |-> NoSave]
  /\ merged = [st |-> "none", ids |-> {}]
  /\ listed = [st |-> "none", user |-> "-", q |-> "", rows |-> <<>>]

(***************************************************************************)
(* analyticsService: consent, Do-Not-Track and what is handed to gtag.     *)
(* Every track* method of the service goes through logEvent.               *)
(***************************************************************************)
OTHERS_OF_ANA ==
  <<dataVars, gemVars, rateVars, imgVars, chatVars, sanVars, histVars, shareVars>>

\* A guard that looks at Do-Not-Track only.
canTrack_IgnoreConsent(c, d) == ~d

\* logEvent / setUserProperty: !(!hasConsent() || isDNTEnabled())
canTrack(c, d) == c = "true" /\ ~d

\* logEvent with window.gtag defined and tracking allowed: the event is
\* sent and trackSessionEngagement runs.  Once the session is ten seconds
\* old and has two interactions, trackSessionEngagement calls logEvent
\* again, which sends and calls it again: the call ends when the stack
\* overflows.
engagement(age, n) ==
  LET age1 == IF age = "none" THEN "young" ELSE age
      n1 == IF n < 2 THEN n + 1 ELSE 2
  IN  [age |-> age1, count |-> n1, threw |-> age1 = "old" /\ n1 >= 2]

\* analyticsService.logEvent(name, params)
logEvent ==
  /\ anaCalls < MaxAnaCalls /\ anaCalls' = anaCalls + 1
  /\ IF canTrack(consent, dnt) /\ gtagDefined
       THEN LET e == engagement(sessionAge, interactionCount) IN
            /\ anaSent' = {"event"}
            /\ sessionAge' = e.age /\ interactionCount' = e.count
            /\ anaThrew' = e.threw
       ELSE /\ anaSent' = {} /\ anaThrew' = FALSE
            /\ UNCHANGED <<sessionAge, interactionCount>>
  /\ UNCHANGED <<consent, dnt, gaConfigured, gtagDefined, firstVisit, OTHERS_OF_ANA>>

\* analyticsService.setUserProperty(property, value)
setUserProperty ==
  /\ anaCalls < MaxAnaCalls /\ anaCalls' = anaCalls + 1
  /\ anaSent' = IF canTrack(consent, dnt) /\ gtagDefined THEN {"set"} ELSE {}
  /\ anaThrew' = FALSE
  /\ UNCHANGED <<consent, dnt, gaConfigured, gtagDefined, firstVisit, sessionAge,
                 interactionCount, OTHERS_OF_ANA>>

\* What init does once the stored consent is c: whether it gets past its
\* three early returns.
initRuns(c) == gaConfigured /\ ~dnt /\ c = "true"

\* The effects of init past its early returns: gtag is defined, 'js' and
\* 'config' are sent, then the user properties and the lifecycle event go
\* through setUserProperty and logEvent.
initSends(c) ==
  {"js", "config"} \cup (IF canTrack(c, dnt) THEN {"set", "event"} ELSE {})

\* analyticsService.init()
init ==
  /\ anaCalls < MaxAnaCalls /\ anaCalls' = anaCalls + 1
  /\ IF initRuns(consent)
       THEN LET e == IF canTrack(consent, dnt)
                       THEN engagement(sessionAge, interactionCount)
                     ELSE [age |-> sessionAge, count |-> interactionCount,
                           threw |-> FALSE]
            IN  /\ gtagDefined' = TRUE
                /\ anaSent' = initSends(consent)
                /\ firstVisit' = TRUE
                /\ sessionAge' = e.age /\ interactionCount' = e.count
                /\ anaThrew' = e.threw
       ELSE /\ anaSent' = {} /\ anaThrew' = FALSE
            /\ UNCHANGED <<gtagDefined, firstVisit, sessionAge, interactionCount>>
  /\ UNCHANGED <<consent, dnt, gaConfigured, OTHERS_OF_ANA>>

\* analyticsService.setConsent(consent)
setConsent(b) ==
  /\ anaCalls < MaxAnaCalls /\ anaCalls' = anaCalls + 1
  /\ consent' = IF b THEN "true" ELSE "false"
  /\ IF b
       THEN IF initRuns("true")
              THEN LET e == engagement(sessionAge, interactionCount) IN
                   /\ gtagDefined' = TRUE
                   /\ anaSent' = initSends("true")
                   /\ firstVisit' = TRUE
                   /\ sessionAge' = e.age /\ interactionCount' = e.count
                   /\ anaThrew' = e.threw
            ELSE /\ anaSent' = {} /\ anaThrew' = FALSE
                 /\ UNCHANGED <<gtagDefined, firstVisit, sessionAge, interactionCount>>
     ELSE /\ anaSent' = IF gtagDefined THEN {"consent"} ELSE {}
          /\ anaThrew' = FALSE
          /\ UNCHANGED <<gtagDefined, firstVisit, sessionAge, interactionCount>>
  /\ UNCHANGED <<dnt, gaConfigured, OTHERS_OF_ANA>>

\* The user switches the browser's Do-Not-Track setting.
ToggleDNT ==
  /\ dnt' = ~dnt
  /\ UNCHANGED <<consent, gaConfigured, gtagDefined, firstVisit, sessionAge,
                 interactionCount, anaSent, anaThrew, anaCalls, OTHERS_OF_ANA>>

\* Ten seconds have passed since the session started.
SessionAges ==
  /\ sessionAge = "young"
  /\ sessionAge' = "old"
  /\ UNCHANGED <<consent, dnt, gaConfigured, gtagDefined, firstVisit,
                 interactionCount, anaSent, anaThrew, anaCalls, OTHERS_OF_ANA>>

\* The build carries no measurement id (GA_ID is the placeholder):
\* fixed before the service is first used.
BuildWithoutMeasurementId ==
  /\ anaCalls = 0 /\ gaConfigured
  /\ gaConfigured' = FALSE
  /\ UNCHANGED <<consent, dnt, gtagDefined, firstVisit, sessionAge,
                 interactionCount, anaSent, anaThrew, anaCalls, OTHERS_OF_ANA>>

InitAna ==
  /\ consent = "none" /\ dnt = FALSE /\ gaConfigured = TRUE
  /\ gtagDefined = FALSE /\ firstVisit = FALSE /\ sessionAge = "none"
  /\ interactionCount = 0 /\ anaSent = {} /\ anaThrew = FALSE /\ anaCalls = 0

(***************************************************************************)
(* ShareModal: the effect on [isOpen, verseData] and generateImage.  Two   *)
(* verses have different cache keys.                                       *)
(***************************************************************************)
Verses == {"Al-Fatihah 1:1", "Al-Baqarah 2:255"}
Gens == 1..MaxGens
ImageOf(key) == "image of " \o key
NoGen == [pc |-> "idle", key |-> "none"]

\* The effect after a render with isOpen and verseData: the cached image
\* is shown, or generateImage(cacheKey) runs up to its await.
EffectOpen(key) ==
  IF imageCache[key] # "none"
    THEN /\ imageUrl' = imageCache[key]
         /\ UNCHANGED <<shLoading, gens, ngens>>
    ELSE /\ ngens < MaxGens
         /\ ngens' = ngens + 1
         /\ gens' = [gens EXCEPT ![ngens + 1] = [pc |-> "inflight", key |-> key]]
         /\ shLoading' = TRUE
         /\ UNCHANGED imageUrl

\* The parent opens the modal for a verse, or hands an open modal another verse.
ShareOpen(v) ==
  /\ ~shOpen \/ shVerse # v
  /\ shOpen' = TRUE /\ shVerse' = v
  /\ EffectOpen(v)
  /\ UNCHANGED <<imageCache, dataVars, gemVars, rateVars, imgVars, chatVars,
                 sanVars, histVars, anaVars>>

\* The parent closes the modal: if (!isOpen) setImageUrl(null)
ShareClose ==
  /\ shOpen
  /\ shOpen' = FALSE
  /\ imageUrl' = "null"
  /\ UNCHANGED <<shVerse, shLoading, imageCache, gens, ngens,
                 dataVars, gemVars, rateVars, imgVars, chatVars,
                 sanVars, histVars, anaVars>>

\* geminiService.generateVerseImage of call g settles: the try block's
\* remainder or the catch block, then finally.
GenSettles(g, ok) ==
  /\ gens[g].pc = "inflight"
  /\ gens' = [gens EXCEPT ![g].pc = "done"]
  /\ IF ok
       THEN /\ imageCache' = [imageCache EXCEPT ![gens[g].key] = ImageOf(gens[g].key)]
            /\ imageUrl' = ImageOf(gens[g].key)
       ELSE UNCHANGED <<imageCache, imageUrl>>
  /\ shLoading' = FALSE
  /\ UNCHANGED <<shOpen, shVerse, ngens, dataVars, gemVars, rateVars, imgVars,
                 chatVars, sanVars, histVars, anaVars>>

InitShare ==
  /\ shOpen = FALSE /\ shVerse = "none" /\ imageUrl = "null" /\ shLoading = FALSE
  /\ imageCache = [v \in Verses |-> "none"]
  /\ gens = [g \in Gens |-> NoGen] /\ ngens = 0

(***************************************************************************)
(* Specifications.                                                         *)
(***************************************************************************)
Init == InitData /\ InitGem /\ InitRate /\ InitImage /\ InitChat /\ InitSan /\ InitHist /\ InitAna /\ InitShare

NextData ==
  \/ \E c \in DirectCalls \cup ToolCalls : StartOp(c)
  \/ \E o \in FetchOutcomes : FetchSettles(o)
  \/ BackoffElapses

NextGem ==
  \/ \E m \in {"direct", "proxy"} : StartChat(m)
  \/ \E o \in GemOk \cup DirectErr \cup ProxyErr : ModelSettles(o)
  \/ GemBackoffElapses

\* Requests of the application's own origin, with the rolling-interval
\* observer free to start at any of them.
AppOrigin == "https://sahabatquran.com"
PostRequest(ip) ==
  \E msg \in {m \in MsgArgs : m.k = "str"}, p \in {"ok", "unavailable"},
     b \in BOOLEAN :
    Request("POST", ip, AppOrigin, msg, p, b)
OtherRequest(ip) ==
  \E m \in Methods \ {"POST"} :
    Request(m, ip, AppOrigin, [k |-> "undef", len |-> 0], "ok", FALSE)

NextRate ==
  \/ \E ip \in IPs : PostRequest(ip)
  \/ \E ip \in IPs : OtherRequest(ip)
  \/ \E d \in TickSteps : SrvTick(d)

\* Requests of any origin, payload and provider outcome (the provider's
\* answer matters only to a request that reaches it).
ProxyPost(ip) ==
  \E origin \in Origins :
    \/ \E msg \in MsgArgs : Request("POST", ip, origin, msg, "ok", FALSE)
    \/ \E p \in ProviderFailures :
         Request("POST", ip, origin, [k |-> "str", len |-> MAX_MESSAGE_LENGTH], p, FALSE)
ProxyOther(ip) ==
  \E m \in Methods \ {"POST"}, origin \in Origins :
    Request(m, ip, origin, [k |-> "undef", len |-> 0], "ok", FALSE)

NextChatProxy ==
  \/ \E ip \in IPs : ProxyPost(ip)
  \/ \E ip \in IPs : ProxyOther(ip)
  \/ \E d \in TickSteps : SrvTick(d)

ImagePost(ip) ==
  \E origin \in Origins :
    \/ \E theme \in ThemeArgs, keySet \in BOOLEAN :
         ImageRequest("POST", ip, origin, keySet, theme, "image")
    \/ \E p \in ImageProviderOutcomes \ {"image"} :
         ImageRequest("POST", ip, origin, TRUE,
                      [k |-> "str", len |-> MAX_THEME_LENGTH], p)
ImageOther(ip) ==
  \E m \in Methods \ {"POST"}, origin \in Origins :
    ImageRequest(m, ip, origin, TRUE, [k |-> "undef", len |-> 0], "image")

NextImage ==
  \/ \E ip \in IPs : ImagePost(ip)
  \/ \E ip \in IPs : ImageOther(ip)
  \/ \E d \in ImageTickSteps : ImageTick(d)

\* The two proxies are separate serverless functions with separate
\* rateLimitMaps and no shared state: a behaviour follows one of them.
ChatProxyIdle == resp.status = 0 /\ nticks = 0
ImageProxyIdle == imgResp.status = 0 /\ imgTicks = 0
NextProxy ==
  \/ ImageProxyIdle /\ NextChatProxy
  \/ ChatProxyIdle /\ NextImage

TurnStep(t) ==
  \/ \E o \in Chat1Outcomes : Chat1Settles(t, o)
  \/ \E i \in 1..MaxToolCalls : ToolSettles(t, i)
  \/ \E o \in Chat2Outcomes : Chat2Settles(t, o)

NextChat ==
  \/ \E s \in Inputs : Type(s)
  \/ \E d \in ClockSteps : handleSubmit(d)
  \/ \E d \in ClockSteps : handleClear(d)
  \/ \E t \in Turns : TurnStep(t)

NextSan ==
  \/ \E c \in Chars : SanType(c)
  \/ SanSanitize
  \/ SanSanitizeAgain
  \/ SanValidate

\* Listing and merging the conversations of the two identities.
NextHist ==
  \/ SignIn
  \/ \E m \in FirstMessages(Len(convs)), ok \in BOOLEAN : createConversation(m, ok)
  \/ \E q \in SearchQueries, ok \in BOOLEAN : getConversations(q, ok)
  \/ \E ok \in BOOLEAN : mergeAnonymousHistory(AUTH, ok)

\* saveMessage calls on the one conversation there is.
NextSave ==
  \/ convs = <<>> /\ \E m \in FirstMessages(0) : createConversation(m, TRUE)
  \/ \E c \in SaveCalls, m \in SavedContents : SaveStart(c, 1, m)
  \/ \E c \in SaveCalls, ok \in BOOLEAN : SaveInserted(c, ok)
  \/ \E c \in SaveCalls : SaveUpdated(c)

NextAna ==
  \/ init
  \/ \E b \in BOOLEAN : setConsent(b)
  \/ logEvent
  \/ setUserProperty
  \/ ToggleDNT
  \/ SessionAges
  \/ BuildWithoutMeasurementId

NextShare ==
  \/ \E v \in Verses : ShareOpen(v)
  \/ ShareClose
  \/ \E g \in Gens, ok \in BOOLEAN : GenSettles(g, ok)

SpecData == Init /\ [][NextData]_vars
SpecGemini == Init /\ [][NextGem]_vars
SpecRate == Init /\ [][NextRate]_vars
SpecProxy == Init /\ [][NextProxy]_vars
SpecChat == Init /\ [][NextChat]_vars
SpecSanitize == Init /\ [][NextSan]_vars
SpecHistory == Init /\ [][NextHist]_vars
SpecSave == Init /\ [][NextSave]_vars
SpecAnalytics == Init /\ [][NextAna]_vars
SpecShare == Init /\ [][NextShare]_vars
\* Every awaited model call and tool execution eventually settles.
SpecChatFair == SpecChat /\ \A t \in Turns : WF_vars(TurnStep(t))

(***************************************************************************)
(* Properties.                                                             *)
(***************************************************************************)
InFlight == {"chat1", "tools", "chat2"}

\* Turn t took a step of its own (an awaited call of it settled).
Stepped(t) ==
  /\ turns[t].pc \in InFlight
  /\ \/ turns'[t].pc # turns[t].pc
     \/ turns'[t].promiseVal # turns[t].promiseVal

\* C1: once handleClear has run after a turn was submitted, no step of that
\* turn appends a message or changes isLoading, whatever the two clock
\* readings were (the same millisecond included).
C1_ClearedTurnIsSilent ==
  [][\A t \in Turns :
       (turns[t].cleared /\ Stepped(t)) =>
         (messages' = messages /\ isLoading' = isLoading)]_vars

\* C2 as stated: a POST request that is the 31st (or later) request of the
\* caller within a rolling interval shorter than 60 s is rejected with 429
\* and not forwarded.  The interval is the observer's: it starts at an
\* arbitrary request of the caller.
C2_RollingWindow ==
  [][(/\ PostRequest(ProbedIp)
      /\ probeCount' > RATE_LIMIT
      /\ srvNow - probeStart' < RATE_WINDOW)
     => (resp'.status = 429 /\ ~resp'.forwarded)]_vars

\* C2 amended: a POST request that is the 31st (or later) request of the
\* caller within the caller's current fixed window (opened by its first
\* request, or by its first request more than 60 s after the window opened)
\* is rejected with 429 and not forwarded; the request that opens a new
\* window is accepted by the limiter.
C2_FixedWindow ==
  [][\A ip \in IPs :
       PostRequest(ip) =>
         /\ winCount'[ip] > RATE_LIMIT => (resp'.status = 429 /\ ~resp'.forwarded)
         /\ (winCount'[ip] = 1 /\ winStart'[ip] = srvNow) => resp'.status # 429]_vars

C2_Witness ==
  /\ winCount[ProbedIp] = RATE_LIMIT + 1
  /\ rateLimitMap[ProbedIp].count = RATE_LIMIT
  /\ resp = Response(429, FALSE)
  /\ srvNow <= winStart[ProbedIp] + RATE_WINDOW

\* C3 as stated: one fetchWithRetry call issues at most 3 fetch attempts.
C3_AtMostThreeAttempts == fetches <= 3

\* C3 amended: with MAX_RETRIES = 3 one fetchWithRetry call issues at most 4
\* fetch attempts (the first attempt and at most 3 retries).
C3_AtMostFourAttempts == fetches <= 4

C3_Witness ==
  /\ fetches = 4 /\ dpc = "done" /\ fstatus = "thrown" /\ Len(waits) = 3

NetworkFailures == {"typeerror_fetch", "timeout"}
ExpectedWaits(k) == [i \in 1..k |-> 2000 * 2^(i - 1)]

\* C4: the i-th wait of a fetchWithRetry call is 2000*2^(i-1) ms, every call
\* starts again from 2000, and a call whose first k attempts failed with a
\* network-category error and whose attempt k+1 succeeded has made exactly
\* k waits and returns the result.
C4_DoublingBackoff ==
  /\ waits = ExpectedWaits(Len(waits))
  /\ Len(waits) <= 3
  /\ dpc = "inflight" => (Len(waits) = attempt /\ delay = 2000 * 2^attempt)
  /\ (fstatus = "returned" /\ \A i \in 1..Len(failed) : failed[i] \in NetworkFailures)
       => /\ Len(waits) = Len(failed)
          /\ fetches = Len(failed) + 1
          /\ dcall.op = "getSurah" /\ dcall.via = "direct" => dresult.st = "resolved"

C4_Witness ==
  /\ nops = 2 /\ fstatus = "returned" /\ dresult.st = "resolved"
  /\ failed = <<"timeout", "typeerror_fetch", "timeout">>
  /\ waits = <<2000, 4000, 8000>>

RetriedFailures == {"typeerror_fetch", "timeout", "http429", "http429_quota"}
FatalStatuses == {"http403", "http404", "http500"}

\* C5: every wait of fetchWithRetry follows an attempt that failed with a
\* network failure, the timeout or HTTP 429; a first attempt answered 403,
\* 404 or 500 ends the call after that one attempt with no wait, and the
\* caller gets the error (FORBIDDEN for 403).
C5_RetryOnlyTransient ==
  /\ Len(waits) <= Len(failed)
  /\ \A i \in 1..Len(waits) : failed[i] \in RetriedFailures
  /\ (failed # <<>> /\ failed[1] \in FatalStatuses)
       => /\ dpc = "done" /\ fstatus = "thrown"
          /\ fetches = 1 /\ waits = <<>>
          /\ dcall.via = "direct" =>
               /\ dresult.st = "rejected"
               /\ dresult.err.cls = "AppError"
               /\ failed[1] = "http403" <=> dresult.err.type = "FORBIDDEN"

C5_Witness ==
  /\ failed = <<"http500">> /\ dpc = "done" /\ dcall.via = "direct"
  /\ dresult.st = "rejected" /\ fetches = 1 /\ opFetches = 1

\* C6: executeTool never rejects; for an unregistered name it resolves to an
\* error object without invoking a data-client operation, and whenever the
\* data-client operation fails it resolves to an error object.
C6_ExecuteToolNeverRejects ==
  dcall.via = "tool" =>
    /\ dresult.st # "rejected"
    /\ dpc = "done" => dresult.st = "resolved"
    /\ dcall.tool \notin ToolNames =>
         /\ dpc = "done" /\ dresult.val.k = "error"
         /\ dcStatus = "notcalled" /\ opFetches = 0
    /\ dcStatus = "rejected" => dresult.val.k = "error"

C6_Witness ==
  /\ dcall.via = "tool" /\ dpc = "done" /\ dcStatus = "rejected"
  /\ fstatus = "thrown" /\ opFetches > 0
  /\ dresult = Resolved(Val("error", "-"))

\* How far a turn is from its end.
Rank(tr) ==
  CASE tr.pc = "chat1" -> Len(AllToolCalls) + 3
    [] tr.pc = "tools" ->
         2 + Cardinality({i \in 1..Len(tr.promiseVal) : tr.promiseVal[i] = Pending})
    [] tr.pc = "chat2" -> 1
    [] OTHER -> 0

\* C7: a turn in flight can always take its next step once the awaited call
\* settles, every step brings it nearer to its end, and the step that ends
\* a turn no clear has superseded appends exactly one model-role message
\* and leaves isLoading false; its other steps append nothing.
C7_TurnEndsWithOneMessage ==
  /\ [](\A t \in Turns : turns[t].pc \in InFlight => ENABLED TurnStep(t))
  /\ [][\A t \in Turns : Stepped(t) => Rank(turns'[t]) < Rank(turns[t])]_vars
  /\ [][\A t \in Turns :
          (Stepped(t) /\ ~turns[t].cleared) =>
            IF turns'[t].pc = "done"
              THEN /\ Len(messages') = Len(messages) + 1
                   /\ SubSeq(messages', 1, Len(messages)) = messages
                   /\ messages'[Len(messages')].role = "model"
                   /\ isLoading' = FALSE
              ELSE messages' = messages /\ isLoading' = isLoading]_vars

\* The same, as a liveness property under SpecChatFair.
C7_Liveness ==
  \A t \in Turns : (turns[t].pc \in InFlight) ~> (turns[t].pc = "done")

C7_Witness ==
  /\ turns[1].pc = "done" /\ ~isLoading
  /\ Len(messages) = 3 /\ messages[2].role = "user"
  /\ messages[3].role = "model" /\ messages[3].content = APOLOGY_GENERIC

\* C8: every tool call of the first response is executed once, the i-th
\* ToolResult carries the i-th call's name and args and the value its
\* execution produced, and the i-th function response of the second model
\* call is that value, in whatever order the executions settle.
C8_ResultsPairedByPosition ==
  \A t \in Turns :
    LET tr == turns[t] IN
    /\ tr.pc = "tools" =>
         /\ Len(tr.promiseVal) = Len(tr.toolCalls)
         /\ \A i \in 1..Len(tr.toolCalls) :
              tr.promiseVal[i] \in {Pending, ToolValue(tr.toolCalls[i])}
    /\ tr.pc = "chat2" =>
         /\ Len(tr.toolCalls) >= 1
         /\ tr.executed = Len(tr.toolCalls)
         /\ Len(tr.toolResults) = Len(tr.toolCalls)
         /\ Len(tr.functionResponses) = Len(tr.toolCalls)
         /\ \A i \in 1..Len(tr.toolCalls) :
              /\ tr.toolResults[i].name = tr.toolCalls[i].name
              /\ tr.toolResults[i].args = tr.toolCalls[i].args
              /\ tr.toolResults[i].result = ToolValue(tr.toolCalls[i])
              /\ tr.functionResponses[i] =
                   [name |-> tr.toolCalls[i].name,
                    response |-> ToolValue(tr.toolCalls[i])]

C8_Witness ==
  \E t \in Turns :
    /\ turns[t].pc = "chat2" /\ Len(turns[t].toolCalls) >= 2
    /\ turns[t].executed = Len(turns[t].toolCalls)

RateLimited429 == {"sdk429", "proxy429", "gateway429"}

\* C9: a chat call that ends in failure after rate-limited (429) model
\* requests, from the SDK or from the proxy, has waited 2000, 4000 and 8000
\* ms and made 4 requests before raising RATE_LIMIT; a quota failure on the
\* first request ends the call with no wait.
C9_RateLimitRetried ==
  /\ (/\ gpc = "done" /\ gresult.st = "rejected" /\ gfailed # <<>>
      /\ gfailed[Len(gfailed)] \in RateLimited429)
       => /\ gwaits = <<2000, 4000, 8000>>
          /\ gcalls = 4
          /\ gthrown = RATE_THROWN
  /\ (gfailed # <<>> /\ gfailed[1] = "sdkQuota")
       => (gpc = "done" /\ gresult.st = "rejected" /\ gcalls = 1 /\ gwaits = <<>>)

\* C10: getSurah and getAyahDetails called with a surah that is not an
\* integer in 1..114 reject with an AppError of type VALIDATION, without any
\* fetch and without any wait.
C10_SurahValidatedFirst ==
  (/\ dpc # "idle"
   /\ dcall.op \in {"getSurah", "getAyahDetails"}
   /\ dcall.hasArgs
   /\ ~(dcall.surah.k = "int" /\ dcall.surah.v \in 1..114))
    => /\ dpc = "done" /\ dcStatus = "rejected"
       /\ opFetches = 0 /\ fetches = 0 /\ waits = <<>>
       /\ dcall.via = "direct" =>
            /\ dresult.st = "rejected"
            /\ dresult.err.cls = "AppError"
            /\ dresult.err.type = "VALIDATION"

C10_Witness ==
  /\ dpc = "done" /\ dcall.via = "direct" /\ dcall.op = "getAyahDetails"
  /\ dcall.surah = IntV(115) /\ dcall.ayah = IntV(1)
  /\ dresult.st = "rejected" /\ dresult.err.type = "VALIDATION" /\ opFetches = 0

\* C11: searchVerses called with a query whose trimmed length is below 2
\* rejects with an AppError of type VALIDATION and performs no fetch.
C11_ShortQueryIsValidation ==
  (/\ dpc # "idle"
   /\ dcall.op = "searchVerses" /\ dcall.via = "direct"
   /\ dcall.query.k = "str" /\ Len(trim(dcall.query.s)) < 2)
    => /\ dpc = "done" /\ dresult.st = "rejected"
       /\ opFetches = 0 /\ fetches = 0
       /\ dresult.err.cls = "AppError"
       /\ dresult.err.type = "VALIDATION"

\* The chat proxy's limiter was consulted for a request of ip.
ChatLimited(ip) ==
  /\ srvNow' = srvNow /\ resp'.status \notin {0, 405}
  /\ ProxyPost(ip)

\* The image proxy's limiter was consulted for a request of ip.
ImageLimited(ip) ==
  /\ imgNow' = imgNow /\ imgResp'.status \notin {0, 405}
  /\ \E origin \in Origins :
       \/ \E theme \in ThemeArgs : ImageRequest("POST", ip, origin, TRUE, theme, "image")
       \/ \E p \in ImageProviderOutcomes :
            ImageRequest("POST", ip, origin, TRUE,
                         [k |-> "str", len |-> MAX_THEME_LENGTH], p)

\* What one request does to a limiter record, given the limit and window.
RecordStep(old, new, t, limit, window) ==
  IF old = NoRecord \/ t > old.resetTime
    THEN new = [count |-> 1, resetTime |-> t + window]
    ELSE /\ new.resetTime = old.resetTime
         /\ new.count = IF old.count < limit THEN old.count + 1 ELSE old.count

\* C12: every stored record of a proxy's rateLimitMap has 1 <= count <=
\* limit (30 chat, 10 image); a record changes only by a request of its
\* caller; it is reset (count 1, resetTime = now + window) by exactly the
\* requests that arrive after resetTime, and a reset leaves resetTime in the
\* future, so the same window is never reset twice.
C12_CountersBoundedResetOnce ==
  /\ [](\A ip \in IPs :
          /\ rateLimitMap[ip] # NoRecord =>
               /\ rateLimitMap[ip].count \in 1..RATE_LIMIT
               /\ rateLimitMap[ip].resetTime <= srvNow + RATE_WINDOW
          /\ imgRateLimitMap[ip] # NoRecord =>
               /\ imgRateLimitMap[ip].count \in 1..IMAGE_RATE_LIMIT
               /\ imgRateLimitMap[ip].resetTime <= imgNow + IMAGE_RATE_WINDOW)
  /\ [][\A ip \in IPs :
          /\ IF ChatLimited(ip)
               THEN RecordStep(rateLimitMap[ip], rateLimitMap'[ip], srvNow,
                               RATE_LIMIT, RATE_WINDOW)
               ELSE rateLimitMap'[ip] = rateLimitMap[ip]
          /\ IF ImageLimited(ip)
               THEN RecordStep(imgRateLimitMap[ip], imgRateLimitMap'[ip], imgNow,
                               IMAGE_RATE_LIMIT, IMAGE_RATE_WINDOW)
               ELSE imgRateLimitMap'[ip] = imgRateLimitMap[ip]
          /\ rateLimitMap'[ip].resetTime >= rateLimitMap[ip].resetTime
          /\ imgRateLimitMap'[ip].resetTime >= imgRateLimitMap[ip].resetTime]_vars

C12_Witness ==
  /\ nticks = 2 /\ srvNow = RATE_WINDOW + 1
  /\ winStart[ProbedIp] = srvNow /\ winCount[ProbedIp] = 2
  /\ rateLimitMap[ProbedIp] = [count |-> 2, resetTime |-> srvNow + RATE_WINDOW]

\* The last chat request used POST, was within the caller's budget and
\* carried a non-empty string of at most 2000 characters.
ChatValid ==
  /\ req.method = "POST"
  /\ winCount[req.ip] <= RATE_LIMIT
  /\ req.msg.k = "str" /\ req.msg.len >= 1 /\ req.msg.len <= 2000

\* The last image request used POST and carried a non-empty string of at
\* most 200 characters.
ImageWellFormed ==
  /\ imgReq.method = "POST"
  /\ imgReq.theme.k = "str" /\ imgReq.theme.len >= 1 /\ imgReq.theme.len <= 200

C14_ForeignOriginNotForwarded ==
  /\ (resp.status # 0 /\ req.origin \notin ALLOWED_ORIGINS) => ~resp.forwarded
  /\ (imgResp.status # 0 /\ imgReq.origin \notin ALLOWED_ORIGINS) => ~imgResp.forwarded

\* C14 amended: the proxy echoes the request's origin in the
\* Access-Control-Allow-Origin header exactly when it is in the allow-list
\* and sets no such header otherwise; the origin decides nothing else: a
\* valid POST request within the budget is forwarded whatever its origin.
C14_OriginOnlySetsCorsHeader ==
  /\ resp.status # 0 =>
       /\ cors = IF req.origin \in ALLOWED_ORIGINS THEN req.origin ELSE "-"
       /\ ChatValid => resp.forwarded
  /\ imgResp.status # 0 =>
       /\ imgResp.cors = IF imgReq.origin \in ALLOWED_ORIGINS THEN imgReq.origin ELSE "-"
       /\ (ImageWellFormed /\ imgReq.keySet /\ imgResp.status # 429) => imgResp.forwarded

C14_Witness ==
  /\ req.method = "POST" /\ req.origin = "https://evil.example"
  /\ cors = "-" /\ resp = Response(200, TRUE) /\ providerCall = "ok"

\* C18: the statuses the chat proxy returns for a provider rate-limit or
\* quota failure, for a provider credential failure and for any other
\* provider failure are pairwise different, and every error response carries
\* an error string.
C18_ProviderFailuresDistinguishable ==
  /\ providerCall \in ProviderFailures =>
       \A q \in ProviderFailures \ {providerCall} :
         handlerBody(req.msg, q).status # resp.status
  /\ resp.status >= 400 => respError # ""

\* The steps the program takes by itself, with no answer from an external
\* service: its timers.
DataOwnStep == FetchSettles("timeout") \/ BackoffElapses
GemOwnStep == GemBackoffElapses

\* C15: every external call is bounded by a timer of the program: while a
\* Quran API fetch or a chat-model call is outstanding, a step of the
\* program that needs no answer from the service is enabled, so the call
\* ends even when the service never answers.
C15_EveryCallHasTimeout ==
  /\ dpc \in {"inflight", "waiting"} => ENABLED DataOwnStep
  /\ gpc \in {"calling", "waiting"} => ENABLED GemOwnStep

\* C16: an error classified as quota exhaustion is never retried:
\* shouldRetry is false for the AppError handleError makes of it, so
\* fetchWithRetry ends after the attempt that failed with it, and
\* apiCallWithRetry rethrows it after a single call.
C16_QuotaNeverRetried ==
  /\ lastError.text = QUOTA_EXCEEDED => ~shouldRetry(lastError, 0, MAX_RETRIES)
  /\ (failed # <<>> /\ failed[Len(failed)] = "http429_quota") =>
       (dpc = "done" /\ fstatus = "thrown" /\ fetches = Len(failed))
  /\ (failed # <<>> /\ failed[1] = "http429_quota") => (fetches = 1 /\ waits = <<>>)
  /\ (gfailed # <<>> /\ gfailed[1] = "sdkQuota") =>
       (gpc = "done" /\ gresult.st = "rejected" /\ gcalls = 1 /\ gwaits = <<>>)

\* The apology handleSubmit's catch block appends for a rejected model call.
ApologyFor(error) == CatchAppend(<<>>, error)[1].content

\* Failures of the model call by cause.
QuotaCauses == {"sdkQuota"}

\* C17: a turn whose model call failed gets an apology classified by cause: a
\* failure caused by quota exhaustion gets the quota apology, a failure caused
\* by a rate limit gets a text that is neither the quota apology nor the
\* generic one, and only the other failures get the generic apology; the
\* error classified is the one geminiService.chat rejects with.
C17_ApologyClassifiedByCause ==
  (gresult.st = "rejected" /\ gfailed # <<>>) =>
    LET cause == gfailed[Len(gfailed)]
        apology == ApologyFor(gresult.err)
    IN  /\ cause \in QuotaCauses => apology = APOLOGY_QUOTA
        /\ cause \in RateLimited429 => apology \notin {APOLOGY_QUOTA, APOLOGY_GENERIC}
        /\ cause \notin QuotaCauses \cup RateLimited429 => apology = APOLOGY_GENERIC

\* C19: when getAyahDetails' first fetch has succeeded and its script-text
\* fetch answers without a text for the verse (an empty verses list, or no
\* verses list at all), the call resolves with the verse and text_uthmani = ''.
C19_MissingScriptTextIsEmpty ==
  [][(/\ dpc = "inflight" /\ dcall.op = "getAyahDetails" /\ dcall.via = "direct"
      /\ stage = 2
      /\ dpc' = "done" /\ fstatus' = "returned"
      /\ dresult' # Resolved(Val("verse", "uthmani")))
     => dresult' = Resolved(Val("verse", ""))]_vars

\* The values a tool execution can hand to the finalizing code.
ToolResultValues ==
  {[k |-> k, of |-> "-"] : k \in {"message", "data", "error", "results", "emptyResults"}}

\* C20: the step that ends a tool turn no clear has superseded appends one
\* model-role message with a non-empty content, whatever the tools returned
\* and also when the second model call resolves with an empty text; in that
\* case the content is the fallback text and the message carries the tool
\* results.  The finalizing code of components/ChatWindow.tsx likewise
\* yields a non-empty content for every tool result.
C20_ToolTurnReplyNotBlank ==
  /\ [][\A t \in Turns :
          (Stepped(t) /\ turns[t].pc = "chat2" /\ ~turns[t].cleared) =>
            /\ messages' = Append(messages, messages'[Len(messages')])
            /\ messages'[Len(messages')].role = "model"
            /\ messages'[Len(messages')].content # ""
            /\ messages'[Len(messages')].content \notin {APOLOGY_GENERIC, APOLOGY_QUOTA} =>
                 /\ messages'[Len(messages')].toolResults = turns[t].toolResults
                 /\ messages'[Len(messages')].content \in {MODEL_TEXT, FALLBACK_TEXT}]_vars
  /\ [](\A text \in {"", MODEL_TEXT}, n \in ToolNames \cup OtherNames,
          v \in ToolResultValues :
          finalContent(text, <<[name |-> n, args |-> "-", result |-> v]>>) # "")

\* A turn with one search that found nothing and an empty second response
\* has ended with the fallback text.
C20_Witness ==
  /\ turns[1].pc = "done"
  /\ Len(messages) = 3
  /\ messages[3].role = "model" /\ messages[3].content = FALLBACK_TEXT
  /\ Len(messages[3].toolResults) = 1
  /\ messages[3].toolResults[1].name = SEARCH_VERSE
  /\ messages[3].toolResults[1].result = [k |-> "message", of |-> "-"]

\* C21: when the first model call of a turn no clear has superseded settles,
\* the turn either goes on to execute at least one tool call, or ends there:
\* no tool is executed, no second model call is made, and the one message
\* appended is a model-role message without toolResults whose content is
\* the model's text (the apology if the call rejected).
C21_NoToolTurnReturnsTextOnly ==
  [][\A t \in Turns :
       (Stepped(t) /\ turns[t].pc = "chat1" /\ ~turns[t].cleared) =>
         \/ /\ turns'[t].pc = "tools"
            /\ Len(turns'[t].toolCalls) >= 1
            /\ messages' = messages
         \/ /\ turns'[t].pc = "done"
            /\ turns'[t].executed = 0
            /\ messages' = Append(messages, messages'[Len(messages')])
            /\ messages'[Len(messages')].role = "model"
            /\ messages'[Len(messages')].toolResults = <<>>
            /\ messages'[Len(messages')].content
                 \in {ResponseText(o) : o \in {"text", "empty"}} \cup {APOLOGY_GENERIC}]_vars

C21_Witness ==
  /\ turns[1].pc = "done" /\ ~isLoading
  /\ messages = <<initialMessage, Msg("user", "ayat tentang sabar", <<>>),
                  Msg("model", MODEL_TEXT, <<>>)>>

\* executeTool(search_verse, args) is the call under way or just ended.
SearchTool == dcall.via = "tool" /\ dcall.tool = SEARCH_VERSE

\* C22, as stated: executeTool for search_verse returns an error object
\* exactly when searchVerses rejects.
C22_ErrorOnlyWhenSearchRejects ==
  (SearchTool /\ dpc = "done") =>
    (dresult.val.k = "error" <=> dcStatus = "rejected")

\* C22: executeTool for search_verse returns the benign message object
\* exactly when searchVerses resolves with an empty or missing result
\* sequence, the sequence itself when it is non-empty, and an error object
\* exactly when searchVerses rejects or cannot be called at all (args is
\* undefined, so reading args.query throws inside executeTool).
C22_ZeroResultsIsNotAnError ==
  /\ []((SearchTool /\ dpc = "done") =>
         /\ dresult.st = "resolved"
         /\ dresult.val.k \in {"results", "message", "error"}
         /\ dresult.val.k = "error" <=>
              (dcStatus = "rejected" \/ (dcStatus = "notcalled" /\ ~dcall.hasArgs))
         /\ dresult.val.k \in {"results", "message"} <=> dcStatus = "resolved")
  /\ [][(SearchTool /\ dpc = "inflight" /\ dpc' = "done" /\ fstatus' = "returned") =>
          /\ FetchSettles("ok_full") => dresult' = Resolved(Val("results", "-"))
          /\ (FetchSettles("ok_empty") \/ FetchSettles("ok_missing")) =>
               dresult' = Resolved(Val("message", "-"))]_vars

\* A search that found nothing has ended with the message object.
C22_Witness ==
  /\ SearchTool /\ dpc = "done" /\ dcStatus = "resolved" /\ fstatus = "returned"
  /\ dresult = Resolved(Val("message", "-"))

\* A step in which the chat proxy (the image proxy) answered a POST request.
ChatPostStep == nticks' = nticks /\ rateVars' # rateVars /\ req'.method = "POST"
ImagePostStep ==
  /\ imgTicks' = imgTicks /\ imgVars' # imgVars
  /\ imgReq'.method = "POST" /\ imgReq'.keySet

Paired(msgs) ==
  /\ Len(msgs) >= 1 /\ msgs[1] = initialMessage
  /\ Len(msgs) % 2 = 1
  /\ \A k \in 2..Len(msgs) :
       msgs[k].role = IF k % 2 = 0 THEN "user" ELSE "model"

\* C27: at most one turn that no clear has superseded is in flight, and in
\* every state where isLoading is false the conversation is the greeting
\* followed by zero or more (user message, model message) pairs.
C27_ConversationIsPaired ==
  /\ Cardinality({t \in Turns : turns[t].pc \in InFlight /\ ~turns[t].cleared}) <= 1
  /\ ~isLoading => Paired(messages)

\* C28: every model-role message in the conversation has a non-empty
\* content, also the one appended by a turn whose first model response has
\* no tool calls and an empty text.
C28_NoBlankModelMessage ==
  \A k \in 1..Len(messages) :
    messages[k].role = "model" => messages[k].content # ""

\* The string is what trim would leave of it, and is not blank.
Trimmed(s) == trim(s) = s
NoAngles(s) == \A k \in 1..Len(s) : s[k] \notin {"<", ">"}

\* C29: the output of sanitizeInput is trimmed, free of '<' and '>' and at
\* most 500 characters long, so sanitizing it again changes nothing; and a
\* query validateSearchQuery accepts has no leading or trailing whitespace
\* and is not blank.
C29_SanitizeIdempotent ==
  /\ sanPc \in {"once", "twice", "validated"} =>
       Trimmed(sanOut) /\ NoAngles(sanOut) /\ Len(sanOut) <= 500
  /\ sanPc = "twice" => sanAgain = sanOut
  /\ sanValid = "accepted" => Trimmed(sanOut) /\ trim(sanOut) # <<>>

\* The ids a listing returned.
Listed(l) == {l.rows[k] : k \in 1..Len(l.rows)}
\* A getConversations() call without search text has just answered for AUTH.
ListedForAuth ==
  listed' # listed /\ listed'.st = "ok" /\ listed'.user = AUTH /\ listed'.q = ""

\* C23, as stated: a listing under the authenticated identity that follows a
\* successful merge returns every conversation the merge moved.
C23_ListingReturnsAllMerged ==
  [][(merged.st = "ok" /\ ListedForAuth) => merged.ids \subseteq Listed(listed')]_vars

\* C23: a successful mergeAnonymousHistory(authUserId) moves exactly the
\* conversations of the anonymous identity to authUserId and changes
\* nothing else of any row or message, and no conversation of the anonymous
\* identity is left; a later listing under the authenticated identity
\* returns that identity's ten most recently updated conversations, most
\* recent first, so it holds all the merged ones when the two identities
\* hold at most ten conversations together.
C23_MergeMovesAllListingCapped ==
  /\ [][(merged' # merged /\ merged'.st = "ok") =>
          /\ Len(convs') = Len(convs) /\ dbMessages' = dbMessages
          /\ merged'.ids = {i \in 1..Len(convs) : convs[i].user_id = ANON}
          /\ \A i \in 1..Len(convs) :
               convs'[i] = IF i \in merged'.ids
                             THEN [convs[i] EXCEPT !.user_id = AUTH]
                           ELSE convs[i]]_vars
  /\ [](merged.st = "ok" => \A i \in 1..Len(convs) : convs[i].user_id = AUTH)
  /\ [][ListedForAuth =>
          LET rows == listed'.rows
              mine == {i \in 1..Len(convs) : convs[i].user_id = AUTH}
          IN  /\ Listed(listed') \subseteq mine
              /\ Len(rows) = IF Cardinality(mine) < LIST_LIMIT THEN Cardinality(mine)
                             ELSE LIST_LIMIT
              /\ \A k \in 1..(Len(rows) - 1) :
                   convs[rows[k]].updated_at > convs[rows[k + 1]].updated_at
              /\ \A i \in mine \ Listed(listed') : \A j \in Listed(listed') :
                   convs[i].updated_at < convs[j].updated_at
              /\ (merged.st = "ok" /\ Cardinality(mine) <= LIST_LIMIT) =>
                   merged.ids \subseteq Listed(listed')]_vars

\* Conversations started anonymously were merged and the listing under the
\* authenticated identity holds them all.
C23_Witness ==
  /\ merged.st = "ok" /\ Cardinality(merged.ids) >= 2
  /\ listed.st = "ok" /\ listed.user = AUTH /\ listed.q = ""
  /\ merged.ids \subseteq Listed(listed)
  /\ Len(listed.rows) = LIST_LIMIT

\* C24: the stored updated_at of a conversation never decreases, however
\* the saveMessage calls on it interleave.
C24_UpdatedAtMonotonic ==
  [][\A i \in 1..Len(convs) : convs'[i].updated_at >= convs[i].updated_at]_vars

\* C25: a service call hands an event or a user property to gtag only when,
\* as the call ends, the stored consent is 'true' and Do-Not-Track is off;
\* a call made while the stored consent is not 'true' sends none unless it
\* is setConsent(true) itself.
C25_NothingSentWithoutConsent ==
  [][(anaCalls' # anaCalls /\ anaSent' \cap {"event", "set"} # {}) =>
       /\ consent' = "true" /\ ~dnt /\ ~dnt'
       /\ consent # "true" => consent' # consent]_vars

\* Consent was given and then withdrawn with analytics running; an event
\* logged afterwards went nowhere.
C25_Witness ==
  /\ consent = "false" /\ gtagDefined /\ ~dnt /\ gaConfigured
  /\ anaSent = {} /\ anaCalls >= 3

\* C30: while the modal is open for a verse and not loading, the image
\* shown, if any, is that verse's; and while the image of the verse the
\* modal is open for is still being generated, the modal is loading.
C30_ImageBelongsToOpenVerse ==
  shOpen =>
    /\ (~shLoading /\ imageUrl # "null") => imageUrl = ImageOf(shVerse)
    /\ (imageCache[shVerse] = "none"
        /\ \E g \in Gens : gens[g].pc = "inflight" /\ gens[g].key = shVerse)
         => shLoading

====
